---- MODULE Spec2Model ----
(***************************************************************************)
(* A model of fast-cx-circs: the bit-matrix operator algebra               *)
(* (cx_circuit.rs), the A* search graph and its expansion                  *)
(* policy (a_star/graph.rs, a_star/expand_children.rs), the A* driver      *)
(* (a_star.rs), the meet-in-the-middle BFS (bfs.rs) and the check-then-    *)
(* write tail of main (main.rs).                                           *)
(*                                                                         *)
(* A row (u16 in the source) is the set of its set bit positions: XOR is   *)
(* the symmetric difference, AND the intersection, count_ones the          *)
(* cardinality.  A value (a CXCircuit16 matrix) is a                       *)
(* function from qubit index to row.  Node indices are 0-based as in the   *)
(* source; node i is nodes[i + 1].                                         *)
(***************************************************************************)
EXTENDS Integers, Sequences, FiniteSets, TLC

\* ------------------------------------------------------------------ bounds

\* Number of qubits of a value (16 in the source).
NQ == 4

\* Largest allowed-move set handed to a search.
MaxMoves == 4

\* Longest gate word used to build a target from the start value.
MaxTargetLen == 3

\* Largest depth cap max_depth handed to a_star.
MaxDepth == 2

\* Largest max_steps handed to mitm_bfs.
MaxSteps == 2

\* Largest allowed-move set and largest depth cap of the runs that hand one
\* input to a_star and then to mitm_bfs.
MaxCompareMoves == 3

MaxCompareDepth == 3

\* Largest number of nodes of a graph built by arbitrary calls.
MaxNodes == 5

\* Largest number of operations applied to one value.
MaxOps == 3

\* Largest number of layers one BFS instance is stepped to.
MaxLayers == 4

\* The depth cap and the largest graph of the depth-4 search.
DeepDepth == 4
MaxDeepNodes == 26

Qubits == 0 .. (NQ - 1)

\* Option::None of an Option<usize> (and usize::MAX of a BFS root entry)
None == 0 - 1

Max(a, b) == IF a >= b THEN a ELSE b

\* ---------------------------------------------------------- operator algebra

\* u16 `^`
Xor(a, b) == (a \ b) \cup (b \ a)

CX(c, t) == [ctrl |-> c, tgt |-> t]

\* cx_circuit.rs eye(): row[i] = 1 << i
eye == [i \in Qubits |-> {i}]

\* CXCircuit16::new
new == eye

\* an add_cx that masks the row of tgt with the row of ctrl
add_cx_circ_and(m, ctrl, tgt) == [m EXCEPT ![tgt] = m[tgt] \cap m[ctrl]]

\* CXCircuit16::add_cx: row[tgt] ^= row[ctrl]
add_cx_circ(m, ctrl, tgt) == [m EXCEPT ![tgt] = Xor(m[tgt], m[ctrl])]

\* CXCircuit16::mult_transpose: bit j of row i is the parity of self[i] & other[j]
mult_transpose(a, b) ==
    [i \in Qubits |-> {j \in Qubits : Cardinality(a[i] \cap b[j]) % 2 = 1}]

\* a transpose that returns its input
transpose_same(a) == a

\* CXCircuit16::transpose: bit j of row i is bit i of row j
transpose(a) == [i \in Qubits |-> {j \in Qubits : i \in a[j]}]

\* CXCircuit::mult
mult(a, b) == mult_transpose(a, transpose(b))

RECURSIVE from_cxs_from(_, _)
from_cxs_from(m, cxs) ==
    IF cxs = <<>> THEN m
    ELSE from_cxs_from(add_cx_circ(m, Head(cxs).ctrl, Head(cxs).tgt), Tail(cxs))

\* CXCircuit::from_cxs
from_cxs(cxs) == from_cxs_from(new, cxs)

\* the number of bits that differ
dist_bits(a, b) ==
    Cardinality({p \in Qubits \X Qubits : (p[2] \in a[p[1]]) # (p[2] \in b[p[1]])})

\* AStarValue::dist: the number of rows that differ
dist(a, b) == Cardinality({q \in Qubits : a[q] # b[q]})

\* AStarValue::cx
cx(v, ctrl, tgt) == add_cx_circ(v, ctrl, tgt)

\* a merge that adds the used rows of `other` to the rows of `v`
merge_xor(v, other, used_qubits) ==
    [q \in Qubits |-> IF q \in used_qubits THEN Xor(v[q], other[q]) ELSE v[q]]

\* AStarValue::merge: rows listed in used_qubits come from other
merge(v, other, used_qubits) ==
    [q \in Qubits |-> IF q \in used_qubits THEN other[q] ELSE v[q]]

\* AStarValue::is_complete
is_complete(v, qb, target) == v[qb] = target[qb]

\* main.rs check_solution_correctness: replay the gates on source, compare
RECURSIVE Replay(_, _)
Replay(source, solution) ==
    IF solution = <<>> THEN source
    ELSE Replay(cx(source, Head(solution).ctrl, Head(solution).tgt), Tail(solution))

\* a check that accepts every solution
check_nothing(solution, source, target) == TRUE

check_solution_correctness(solution, source, target) ==
    Replay(source, solution) = target

\* ------------------------------------------------------------- A* graph

NoEdge == [type |-> "None"]

OpEdge(op, src, dst) == [type |-> "Op", op |-> op, src |-> src, dst |-> dst]

MergeEdge(src1, src2, dst) ==
    [type |-> "Merge", src1 |-> src1, src2 |-> src2, dst |-> dst]

\* AEdge::srcs
srcs(e) ==
    IF e.type = "Op" THEN <<e.src>>
    ELSE IF e.type = "Merge" THEN <<e.src1, e.src2>>
    ELSE <<>>

\* ANode::new_root
new_root == [cost |-> 0, prev |-> NoEdge, next |-> <<>>, stats |-> <<>>]

\* ANode::new_child
new_child(prev, cost, cx_count_per_qb) ==
    [cost |-> cost, prev |-> prev, next |-> <<>>, stats |-> cx_count_per_qb]

\* The BiHashMap<ANodeInd, V> is the set of its (left, right) pairs.
\* a lookup that never finds the value
contains_right_never(values, v) == FALSE

contains_right(values, v) == \E p \in values : p[2] = v

contains_left(values, ind) == \E p \in values : p[1] = ind

get_by_left(values, ind) == (CHOOSE p \in values : p[1] = ind)[2]

\* BiHashMap::insert: a pair with the same left or the same right is evicted
bimap_insert(values, ind, v) ==
    {p \in values : p[1] # ind /\ p[2] # v} \cup {<<ind, v>>}

\* AStarGraph::new
AStarGraph_new(start, moves) ==
    [nodes |-> <<new_root>>, values |-> {<<0, start>>}, allowed_moves |-> moves]

root_ind == 0

node(g, ind) == g.nodes[ind + 1]

cost(g, ind) == node(g, ind).cost

prev_edge(g, ind) == node(g, ind).prev

next_edges(g, ind) == node(g, ind).next

value(g, ind) == get_by_left(g.values, ind)

is_expanded(g, ind) == node(g, ind).next # <<>>

\* AStarGraph::children: the dst of every next edge, in order
children(g, ind) == [k \in 1 .. Len(next_edges(g, ind)) |-> next_edges(g, ind)[k].dst]

\* Vec::resize(n, 0) on a vector shorter than n
Resize(v, n) == v \o [k \in 1 .. (n - Len(v)) |-> 0]

\* add_cx that links the edge into the parent before the lookup
add_cx_edge_first(g, nd, op) ==
    LET edge == OpEdge(op, nd, Len(g.nodes))
        linked == [g EXCEPT !.nodes = [g.nodes EXCEPT ![nd + 1].next = Append(@, edge)]]
        new_value == cx(get_by_left(g.values, nd), op.ctrl, op.tgt)
        old == node(g, nd).stats
        max_qb == Max(op.ctrl, op.tgt)
        resized == IF Len(old) <= max_qb THEN Resize(old, max_qb + 1) ELSE old
        inc1 == [resized EXCEPT ![op.ctrl + 1] = @ + 1]
        cx_count_per_qb == [inc1 EXCEPT ![op.tgt + 1] = @ + 1]
    IN  IF ~contains_right(g.values, new_value)
        THEN [graph |->
                [linked EXCEPT
                    !.values = bimap_insert(g.values, Len(g.nodes), new_value),
                    !.nodes = Append(linked.nodes,
                                     new_child(edge, cost(g, nd) + 1, cx_count_per_qb))],
              ind |-> Len(g.nodes)]
        ELSE [graph |-> linked, ind |-> None]

\* add_cx that charges nothing for the gate
add_cx_free(g, nd, op) ==
    LET edge == OpEdge(op, nd, Len(g.nodes))
        new_value == cx(get_by_left(g.values, nd), op.ctrl, op.tgt)
    IN  IF ~contains_right(g.values, new_value)
        THEN [graph |->
                [g EXCEPT
                    !.values = bimap_insert(g.values, Len(g.nodes), new_value),
                    !.nodes = Append([g.nodes EXCEPT ![nd + 1].next = Append(@, edge)],
                                     new_child(edge, cost(g, nd), node(g, nd).stats))],
              ind |-> Len(g.nodes)]
        ELSE [graph |-> g, ind |-> None]

\* AStarGraph::add_cx
add_cx(g, nd, op) ==
    LET edge == OpEdge(op, nd, Len(g.nodes))
        new_cost == cost(g, nd) + 1
        old == node(g, nd).stats
        max_qb == Max(op.ctrl, op.tgt)
        resized == IF Len(old) <= max_qb THEN Resize(old, max_qb + 1) ELSE old
        inc1 == [resized EXCEPT ![op.ctrl + 1] = @ + 1]
        cx_count_per_qb == [inc1 EXCEPT ![op.tgt + 1] = @ + 1]
        new_value == cx(get_by_left(g.values, nd), op.ctrl, op.tgt)
    IN  IF ~contains_right(g.values, new_value)
        THEN [graph |->
                [g EXCEPT
                    !.values = bimap_insert(g.values, Len(g.nodes), new_value),
                    !.nodes = Append([g.nodes EXCEPT ![nd + 1].next = Append(@, edge)],
                                     new_child(edge, new_cost, cx_count_per_qb))],
              ind |-> Len(g.nodes)]
        ELSE [graph |-> g, ind |-> None]

\* element-wise sum after resizing the first vector to the second's length
SumStats(s1, s2) ==
    LET r1 == IF Len(s1) <= Len(s2) THEN Resize(s1, Len(s2)) ELSE s1
    IN  [k \in 1 .. Len(r1) |-> IF k <= Len(s2) THEN r1[k] + s2[k] ELSE r1[k]]

\* add_merge that links the edge into src1 only
add_merge_one_sided(g, src1, src2, used_qubits) ==
    LET edge == MergeEdge(src1, src2, Len(g.nodes))
        new_value == merge(get_by_left(g.values, src1), get_by_left(g.values, src2),
                           used_qubits)
    IN  IF ~contains_right(g.values, new_value)
        THEN [graph |->
                [g EXCEPT
                    !.values = bimap_insert(g.values, Len(g.nodes), new_value),
                    !.nodes = Append([g.nodes EXCEPT ![src1 + 1].next = Append(@, edge)],
                                     new_child(edge, cost(g, src1) + cost(g, src2),
                                               SumStats(node(g, src1).stats,
                                                        node(g, src2).stats)))],
              ind |-> Len(g.nodes)]
        ELSE [graph |-> g, ind |-> None]

\* AStarGraph::add_merge
add_merge(g, src1, src2, used_qubits) ==
    LET edge == MergeEdge(src1, src2, Len(g.nodes))
        new_cost == cost(g, src1) + cost(g, src2)
        cx_count_per_qb == SumStats(node(g, src1).stats, node(g, src2).stats)
        new_value == merge(get_by_left(g.values, src1), get_by_left(g.values, src2),
                           used_qubits)
        nodes1 == [g.nodes EXCEPT ![src1 + 1].next = Append(@, edge)]
        nodes2 == [nodes1 EXCEPT ![src2 + 1].next = Append(@, edge)]
    IN  IF ~contains_right(g.values, new_value)
        THEN [graph |->
                [g EXCEPT
                    !.values = bimap_insert(g.values, Len(g.nodes), new_value),
                    !.nodes = Append(nodes2, new_child(edge, new_cost, cx_count_per_qb))],
              ind |-> Len(g.nodes)]
        ELSE [graph |-> g, ind |-> None]

\* no qubit is ever disallowed
disallowed_qubits_none(g, ind, top) == {}

\* the counts of `top` without the subtraction
disallowed_qubits_of_top(g, ind, top) ==
    {qb \in 0 .. (Len(node(g, top).stats) - 1) : node(g, top).stats[qb + 1] > 0}

\* AStarGraph::disallowed_qubits: the qubits whose count in `top` exceeds
\* their count in `ind` (u16 subtraction, `ind` an ancestor of `top`)
disallowed_qubits(g, ind, top) ==
    LET t == node(g, top).stats
        s == node(g, ind).stats
    IN  {qb \in 0 .. (Len(t) - 1) :
            (IF qb + 1 <= Len(s) THEN (t[qb + 1] - s[qb + 1]) % 65536 ELSE t[qb + 1]) > 0}

\* AStarGraph::path: a stack walk over prev edges with a seen set, reversed
RECURSIVE path_walk(_, _, _, _)
path_walk(g, curr_nodes, seen_nodes, acc) ==
    IF curr_nodes = <<>> THEN acc
    ELSE LET nd == curr_nodes[Len(curr_nodes)]
             rest == SubSeq(curr_nodes, 1, Len(curr_nodes) - 1)
             e == prev_edge(g, nd)
         IN  IF nd \in seen_nodes THEN path_walk(g, rest, seen_nodes, acc)
             ELSE IF e.type = "Op"
                  THEN path_walk(g, Append(rest, e.src), seen_nodes \cup {nd},
                                 Append(acc, e.op))
             ELSE IF e.type = "Merge"
                  THEN path_walk(g, rest \o <<e.src1, e.src2>>, seen_nodes \cup {nd}, acc)
             ELSE path_walk(g, rest, seen_nodes \cup {nd}, acc)

Reverse(s) == [k \in 1 .. Len(s) |-> s[Len(s) + 1 - k]]

path(g, ind) == Reverse(path_walk(g, <<ind>>, {}, <<>>))

\* ------------------------------------------------- A* expansion policy

\* The iteration order of the FxHashSet of allowed moves: one fixed order of
\* its elements (here by ctrl, then tgt), the same at every expansion.
MoveLess(a, b) == a.ctrl < b.ctrl \/ (a.ctrl = b.ctrl /\ a.tgt < b.tgt)

RECURSIVE IterOrder(_)
IterOrder(S) ==
    IF S = {} THEN <<>>
    ELSE LET m == CHOOSE x \in S : \A y \in S \ {x} : MoveLess(x, y)
         IN  <<m>> \o IterOrder(S \ {m})

\* `for cx in moves { self.add_cx(ind, cx); }`
RECURSIVE add_cx_all(_, _, _)
add_cx_all(g, ind, moves) ==
    IF moves = <<>> THEN g
    ELSE add_cx_all(add_cx(g, ind, Head(moves)).graph, ind, Tail(moves))

\* the filter of expand_children after an Op edge: at least one shared endpoint
shares_endpoint(m, ctrl, tgt) ==
    m.ctrl = ctrl \/ m.tgt = ctrl \/ m.ctrl = tgt \/ m.tgt = tgt

\* AStarGraph::get_cx_qbs: the qubits of the Op edges before both sources of
\* a merge edge, or None when one of them is not an Op edge
get_cx_qbs(g, edge) ==
    LET e1 == prev_edge(g, edge.src1)
        e2 == prev_edge(g, edge.src2)
    IN  IF e1.type = "Op" /\ e2.type = "Op"
        THEN [some |-> TRUE, qbs1 |-> <<e1.op.ctrl, e1.op.tgt>>,
              qbs2 |-> <<e2.op.ctrl, e2.op.tgt>>]
        ELSE [some |-> FALSE, qbs1 |-> <<>>, qbs2 |-> <<>>]

\* the candidates in one orientation only
merge_cx_one_way(qbs1, qbs2) ==
    <<CX(qbs1[1], qbs2[1]), CX(qbs1[1], qbs2[2]),
      CX(qbs1[2], qbs2[1]), CX(qbs1[2], qbs2[2])>>

\* iproduct!(qbs1, qbs2), each pair followed by its reverse
merge_cx_candidates(qbs1, qbs2) ==
    <<CX(qbs1[1], qbs2[1]), CX(qbs2[1], qbs1[1]),
      CX(qbs1[1], qbs2[2]), CX(qbs2[2], qbs1[1]),
      CX(qbs1[2], qbs2[1]), CX(qbs2[1], qbs1[2]),
      CX(qbs1[2], qbs2[2]), CX(qbs2[2], qbs1[2])>>

\* every gate handed to add_cx, allowed or not
cx_moves_unfiltered(g, ind) == <<CX(0, 1), CX(1, 0), CX(1, 2), CX(2, 1), CX(2, 3), CX(3, 2)>>

\* every allowed move handed to add_cx whatever the prev edge
cx_moves_any(g, ind) == IterOrder(g.allowed_moves)

\* The gates expand_children hands to add_cx for `ind`, in order
cx_moves(g, ind) ==
    LET e == prev_edge(g, ind)
    IN  IF e.type = "Op"
        THEN SelectSeq(IterOrder(g.allowed_moves),
                       LAMBDA m : shares_endpoint(m, e.op.ctrl, e.op.tgt))
        ELSE IF e.type = "Merge"
        THEN LET q == get_cx_qbs(g, e)
             IN  IF q.some
                 THEN SelectSeq(merge_cx_candidates(q.qbs1, q.qbs2),
                                LAMBDA m : m \in g.allowed_moves)
                 ELSE <<>>
        ELSE IterOrder(g.allowed_moves)

\* is_mergeable without the completeness test after a merge edge
is_mergeable_any_leaf(g, ind, complete) ==
    ~is_expanded(g, ind) /\ prev_edge(g, ind).type # "None"

\* AStarGraph::is_mergeable; `complete` is the set of qubits on which the
\* is_complete closure answers true
is_mergeable(g, ind, complete) ==
    IF is_expanded(g, ind) THEN FALSE
    ELSE LET e == prev_edge(g, ind)
         IN  IF e.type = "None" THEN FALSE
             ELSE IF e.type = "Op" THEN TRUE
             ELSE LET e1 == prev_edge(g, e.src1)
                      e2 == prev_edge(g, e.src2)
                      qubits == (IF e1.type = "Op" THEN {e1.op.ctrl, e1.op.tgt} ELSE {})
                                \cup (IF e2.type = "Op" THEN {e2.op.ctrl, e2.op.tgt} ELSE {})
                  IN  \A qb \in qubits : qb \in complete

EmptyMap == [x \in {} |-> {}]

Last(s) == s[Len(s)]

Front(s) == SubSeq(s, 1, Len(s) - 1)

\* AStarGraph::backward_dfs
RECURSIVE backward_dfs(_, _, _, _)
backward_dfs(g, ind, dfs_queue, disallowed_qbs) ==
    IF dfs_queue = <<>> THEN disallowed_qbs
    ELSE LET curr == Last(dfs_queue)
         IN  IF curr \notin DOMAIN disallowed_qbs
             THEN backward_dfs(g, ind, Front(dfs_queue) \o srcs(prev_edge(g, curr)),
                               (curr :> disallowed_qubits(g, curr, ind)) @@ disallowed_qbs)
             ELSE backward_dfs(g, ind, Front(dfs_queue), disallowed_qbs)

get_or_default(m, k) == IF k \in DOMAIN m THEN m[k] ELSE {}

\* One edge of the inner loop of propagate_forward: st = [queue, dis, mer]
pf_edge(g, nodes_in_past, edge, st) ==
    IF edge.type = "Op"
    THEN IF edge.dst \in nodes_in_past
         THEN [st EXCEPT !.queue = Append(@, edge.dst)]
         ELSE LET disallowed_src == st.dis[edge.src]
              IN  IF edge.op.ctrl \in disallowed_src \/ edge.op.tgt \in disallowed_src
                  THEN st
                  ELSE IF edge.dst \notin DOMAIN st.dis
                  THEN [queue |-> Append(st.queue, edge.dst),
                        dis |-> (edge.dst :> disallowed_src) @@ st.dis,
                        mer |-> IF is_expanded(g, edge.dst)
                                THEN (edge.dst :> (get_or_default(st.mer, edge.src)
                                                   \cup {edge.op.ctrl, edge.op.tgt}))
                                     @@ st.mer
                                ELSE st.mer]
                  ELSE st
    ELSE IF edge.dst \in nodes_in_past
         THEN [st EXCEPT !.queue = Append(@, edge.dst)]
         ELSE IF edge.src1 \notin DOMAIN st.dis \/ edge.src2 \notin DOMAIN st.dis
         THEN st
         ELSE IF edge.dst \notin DOMAIN st.dis
         THEN [queue |-> Append(st.queue, edge.dst),
               dis |-> (edge.dst :> (st.dis[edge.src1] \cap st.dis[edge.src2])) @@ st.dis,
               mer |-> IF is_expanded(g, edge.dst)
                       THEN (edge.dst :> (get_or_default(st.mer, edge.src1)
                                          \cup get_or_default(st.mer, edge.src2)))
                            @@ st.mer
                       ELSE st.mer]
         ELSE st

RECURSIVE pf_edges(_, _, _, _)
pf_edges(g, nodes_in_past, edges, st) ==
    IF edges = <<>> THEN st
    ELSE pf_edges(g, nodes_in_past, Tail(edges), pf_edge(g, nodes_in_past, Head(edges), st))

RECURSIVE pf_loop(_, _, _)
pf_loop(g, nodes_in_past, st) ==
    IF st.queue = <<>> THEN st.mer
    ELSE LET curr == Last(st.queue)
         IN  pf_loop(g, nodes_in_past,
                     pf_edges(g, nodes_in_past, next_edges(g, curr),
                              [st EXCEPT !.queue = Front(@)]))

\* AStarGraph::propagate_forward: the map node -> used qubits
propagate_forward(g, disallowed_qbs) ==
    pf_loop(g, DOMAIN disallowed_qbs,
            [queue |-> <<root_ind>>, dis |-> disallowed_qbs, mer |-> EmptyMap])

\* AStarGraph::find_mergeable_nodes
find_mergeable_nodes(g, ind) ==
    propagate_forward(g, backward_dfs(g, ind, <<ind>>, EmptyMap))

RECURSIVE AscSeq(_)
AscSeq(S) ==
    IF S = {} THEN <<>>
    ELSE LET m == CHOOSE x \in S : \A y \in S : x <= y
         IN  <<m>> \o AscSeq(S \ {m})

\* `for (node, qbs) in mergeable_nodes { self.add_merge(ind, node, &qbs); }`
\* (the map is walked in one fixed order, here by node index)
RECURSIVE add_merge_all(_, _, _, _)
add_merge_all(g, ind, order, mergeable_nodes) ==
    IF order = <<>> THEN g
    ELSE add_merge_all(add_merge(g, ind, Head(order), mergeable_nodes[Head(order)]).graph,
                       ind, Tail(order), mergeable_nodes)

\* The merge half of expand_children, on the graph the CX half left
expand_merges(g, ind, complete) ==
    IF is_mergeable(g, ind, complete)
    THEN LET mergeable_nodes == find_mergeable_nodes(g, ind)
         IN  add_merge_all(g, ind, AscSeq(DOMAIN mergeable_nodes), mergeable_nodes)
    ELSE g

\* AStarGraph::expand_children: the CX children, then the merge children
expand_children(g, ind, complete) ==
    expand_merges(add_cx_all(g, ind, cx_moves(g, ind)), ind, complete)

\* ------------------------------------------------------------ state

VARIABLES
    algo,               \* what runs: "astar" | "mitm" | "bfs" | "compare" | "graph"
    start,              \* the source value (a_star: start)
    target,             \* the target value
    max_depth,          \* a_star: Some(max_depth)
    graph,              \* a_star: the AStarGraph
    pq,                 \* a_star: the priority queue, entries [item, cost, gates]
    min_solution,       \* a_star: Option<Vec<CX>> as [some, sol]
    max_cost,           \* a_star: Option<usize>, None or the largest cost popped
    popped,             \* a_star: the node of the last pop (None before the first)
    move_inds,          \* main: the gate of every move index
    moves,              \* mitm_bfs: Moves<T>, the transposed matrix of every move
    max_steps,          \* mitm_bfs: max_steps
    extrapolate,        \* mitm_bfs: extrapolate
    forward,            \* mitm_bfs: the BFS rooted at identity
    backward,           \* mitm_bfs: the BFS rooted at the target
    forward_frontier,   \* mitm_bfs: Option<FxHashSet<T>> as [some, set]
    backward_frontier,  \* mitm_bfs: Option<FxHashSet<T>> as [some, set]
    n_cx,               \* mitm_bfs: the round of the main loop
    found,              \* mitm_bfs: where the solution was found: [at, round]
    mitm_result,        \* mitm_bfs: Option<Vec<usize>> as [some, sol]
    pc,                 \* "loop" | "fwd" | "bwd" | "extra" | "bfs" | "calls" |
                        \* "returned" | "panic" | "exit"
    solution,           \* main: Option<Vec<CX>> the search returned, as [some, sol]
    output              \* main: the solution written to the output file, or NotWritten

astar_vars == <<graph, pq, min_solution, max_cost, popped>>

mitm_vars == <<forward, backward, forward_frontier, backward_frontier, n_cx, found,
               mitm_result>>

input_vars == <<algo, start, target, max_depth, move_inds, moves, max_steps, extrapolate>>

vars == <<input_vars, astar_vars, mitm_vars, pc, solution, output>>

NoSolution == [some |-> FALSE, sol |-> <<>>]

Some(sol) == [some |-> TRUE, sol |-> sol]

NotWritten == [written |-> FALSE, sol |-> <<>>]

NoSet == [some |-> FALSE, set |-> {}]

SomeSet(S) == [some |-> TRUE, set |-> S]

NotFound == [at |-> "none", round |-> 0]

\* ------------------------------------------------------------ A* driver

\* the order with ties broken towards the node with fewer gates
PQGreater_shallow(a, b) == a.cost < b.cost \/ (a.cost = b.cost /\ a.gates < b.gates)

\* PQCost(Reverse(cost), gates) with the derived lexicographic Ord:
\* a is a greater priority than b
PQGreater(a, b) == a.cost < b.cost \/ (a.cost = b.cost /\ a.gates > b.gates)

\* The entries PriorityQueue::pop may return: those of greatest priority
\* (the queue's order among equal priorities is left open)
pq_top(q) == {e \in q : \A o \in q : ~PQGreater(o, e)}

\* PriorityQueue::push: an item already queued gets the new priority
pq_push(q, item, cost_estimate, gates) ==
    {e \in q : e.item # item}
        \cup {[item |-> item, cost |-> cost_estimate, gates |-> gates]}

\* the loop body replacing the best solution by one that is not longer
visit_child_not_longer(g, tgt, new_child_ind, st) ==
    LET is_target == contains_left(g.values, new_child_ind) /\ value(g, new_child_ind) = tgt
        new_solution == path(g, new_child_ind)
        sol == IF is_target
               THEN IF st.min_solution.some
                    THEN IF Len(new_solution) <= Len(st.min_solution.sol)
                         THEN Some(new_solution)
                         ELSE st.min_solution
                    ELSE Some(new_solution)
               ELSE st.min_solution
        cost_estimate == cost(g, new_child_ind) + dist(value(g, new_child_ind), tgt)
    IN  [min_solution |-> sol,
         pq |-> pq_push(st.pq, new_child_ind, cost_estimate, cost(g, new_child_ind))]

\* The body of `for new_child in graph.children(ind)`: st = [min_solution, pq]
visit_child(g, tgt, new_child_ind, st) ==
    LET is_target == contains_left(g.values, new_child_ind) /\ value(g, new_child_ind) = tgt
        new_solution == path(g, new_child_ind)
        sol == IF is_target
               THEN IF st.min_solution.some
                    THEN IF Len(new_solution) < Len(st.min_solution.sol)
                         THEN Some(new_solution)
                         ELSE st.min_solution
                    ELSE Some(new_solution)
               ELSE st.min_solution
        cost_estimate == cost(g, new_child_ind) + dist(value(g, new_child_ind), tgt)
    IN  [min_solution |-> sol,
         pq |-> pq_push(st.pq, new_child_ind, cost_estimate, cost(g, new_child_ind))]

RECURSIVE visit_children(_, _, _, _)
visit_children(g, tgt, kids, st) ==
    IF kids = <<>> THEN st
    ELSE visit_children(g, tgt, Tail(kids), visit_child(g, tgt, Head(kids), st))

\* `max_cost.is_none() || graph.cost(ind) > max_cost.unwrap()`
new_max(ind) == max_cost = None \/ cost(graph, ind) > max_cost

\* the depth test one gate too late
depth_reached_late(ind) ==
    new_max(ind) /\ max_depth # None /\ cost(graph, ind) > max_depth + 1

\* `max_depth.is_some() && max_cost > max_depth` once max_cost was raised
depth_reached(ind) ==
    new_max(ind) /\ max_depth # None /\ cost(graph, ind) > max_depth

\* `prio.cost() > min_solution.len()`
is_optimal(e) == min_solution.some /\ e.cost > Len(min_solution.sol)

\* the qubits on which the closure |qb| value.is_complete(qb, target) holds
complete_qubits(v, tgt) == {qb \in Qubits : is_complete(v, qb, tgt)}

\* pq.pop().expect(..) on an empty queue
AStarPopEmpty ==
    /\ pc = "loop"
    /\ pq = {}
    /\ pc' = "panic"
    /\ UNCHANGED <<input_vars, astar_vars, mitm_vars, solution, output>>

\* the pop that raises max_cost above max_depth: break, return min_solution
AStarDepthBreak ==
    /\ pc = "loop"
    /\ \E e \in pq_top(pq) :
        /\ depth_reached(e.item)
        /\ pq' = pq \ {e}
        /\ max_cost' = cost(graph, e.item)
        /\ popped' = e.item
    /\ pc' = "returned"
    /\ solution' = min_solution
    /\ UNCHANGED <<input_vars, graph, min_solution, mitm_vars, output>>

\* the pop whose estimate exceeds the best solution's length: break
AStarOptimalBreak ==
    /\ pc = "loop"
    /\ \E e \in pq_top(pq) :
        /\ ~depth_reached(e.item)
        /\ is_optimal(e)
        /\ pq' = pq \ {e}
        /\ max_cost' = (IF new_max(e.item) THEN cost(graph, e.item) ELSE max_cost)
        /\ popped' = e.item
    /\ pc' = "returned"
    /\ solution' = min_solution
    /\ UNCHANGED <<input_vars, graph, min_solution, mitm_vars, output>>

\* one full iteration: pop, expand, visit every child
AStarExpand ==
    /\ pc = "loop"
    /\ \E e \in pq_top(pq) :
        /\ ~depth_reached(e.item)
        /\ ~is_optimal(e)
        /\ LET ind == e.item
               g == expand_children(graph, ind, complete_qubits(value(graph, ind), target))
               st == visit_children(g, target, children(g, ind),
                                    [min_solution |-> min_solution, pq |-> pq \ {e}])
           IN  /\ graph' = g
               /\ pq' = st.pq
               /\ min_solution' = st.min_solution
               /\ max_cost' = (IF new_max(ind) THEN cost(graph, ind) ELSE max_cost)
               /\ popped' = ind
    /\ pc' = "loop"
    /\ UNCHANGED <<input_vars, mitm_vars, solution, output>>

AStarStep == AStarPopEmpty \/ AStarDepthBreak \/ AStarOptimalBreak \/ AStarExpand

\* ------------------------------------------------------------- MITM BFS

\* BFS::new
BFS_new(start_circ, mvs) ==
    [moves |-> mvs, cx_count_circs |-> <<(start_circ :> None)>>]

\* BFS::depth
bfs_depth(b) == Len(b.cx_count_circs) - 1

\* the layer of depth d
layer(b, d) == b.cx_count_circs[d + 1]

\* BFS::step filtering against the last layer only
bfs_step_last_frontier(b) ==
    LET depth == Len(b.cx_count_circs)
        front == DOMAIN b.cx_count_circs[depth]
        ids == 1 .. Len(b.moves)
        new_circs == {c \in {mult_transpose(f, b.moves[i]) : f \in front, i \in ids} :
                        c \notin front}
        move_of(c) ==
            LET f == CHOOSE f \in front : \E i \in ids : mult_transpose(f, b.moves[i]) = c
                i == CHOOSE i \in ids :
                        /\ mult_transpose(f, b.moves[i]) = c
                        /\ \A j \in ids : mult_transpose(f, b.moves[j]) = c => j <= i
            IN  i - 1
        new_moves == [c \in new_circs |-> move_of(c)]
    IN  [bfs |-> [b EXCEPT !.cx_count_circs = Append(@, new_moves)],
         new_circs |-> new_circs]

\* BFS::step recording the 1-based position of the producing move
bfs_step_next_index(b) ==
    LET depth == Len(b.cx_count_circs)
        front == DOMAIN b.cx_count_circs[depth]
        in_frontiers(c) ==
            \/ c \in DOMAIN b.cx_count_circs[depth]
            \/ depth > 1 /\ c \in DOMAIN b.cx_count_circs[depth - 1]
        ids == 1 .. Len(b.moves)
        new_circs == {c \in {mult_transpose(f, b.moves[i]) : f \in front, i \in ids} :
                        ~in_frontiers(c)}
        move_of(c) ==
            LET f == CHOOSE f \in front : \E i \in ids : mult_transpose(f, b.moves[i]) = c
            IN  CHOOSE i \in ids :
                        /\ mult_transpose(f, b.moves[i]) = c
                        /\ \A j \in ids : mult_transpose(f, b.moves[j]) = c => j <= i
        new_moves == [c \in new_circs |-> move_of(c)]
    IN  [bfs |-> [b EXCEPT !.cx_count_circs = Append(@, new_moves)],
         new_circs |-> new_circs]

\* BFS::step with collect_moves and apply_moves: every element of the last
\* layer times every move, kept when in neither of the two last layers; an
\* element produced more than once keeps the last insert (for one producing
\* circuit, its greatest move index)
bfs_step(b) ==
    LET depth == Len(b.cx_count_circs)
        front == DOMAIN b.cx_count_circs[depth]
        in_frontiers(c) ==
            \/ c \in DOMAIN b.cx_count_circs[depth]
            \/ depth > 1 /\ c \in DOMAIN b.cx_count_circs[depth - 1]
        ids == 1 .. Len(b.moves)
        new_circs == {c \in {mult_transpose(f, b.moves[i]) : f \in front, i \in ids} :
                        ~in_frontiers(c)}
        move_of(c) ==
            LET f == CHOOSE f \in front : \E i \in ids : mult_transpose(f, b.moves[i]) = c
                i == CHOOSE i \in ids :
                        /\ mult_transpose(f, b.moves[i]) = c
                        /\ \A j \in ids : mult_transpose(f, b.moves[j]) = c => j <= i
            IN  i - 1
        new_moves == [c \in new_circs |-> move_of(c)]
    IN  [bfs |-> [b EXCEPT !.cx_count_circs = Append(@, new_moves)],
         new_circs |-> new_circs]

\* BFS::backtrack: [ok, moves]; ok is false when the depth-0 check panics
RECURSIVE backtrack_from(_, _, _, _)
backtrack_from(b, curr, curr_depth, acc) ==
    IF curr_depth < 1
    THEN [ok |-> curr \in DOMAIN layer(b, 0), moves |-> acc]
    ELSE IF curr \in DOMAIN layer(b, curr_depth)
         THEN LET move_id == layer(b, curr_depth)[curr]
              IN  backtrack_from(b, mult_transpose(curr, b.moves[move_id + 1]),
                                 curr_depth - 1, Append(acc, move_id))
         ELSE backtrack_from(b, curr, curr_depth - 1, acc)

\* BFS::backtrack without the depth-0 check
backtrack_unchecked(b, circ) ==
    [ok |-> TRUE, moves |-> backtrack_from(b, circ, Len(b.cx_count_circs) - 1, <<>>).moves]

backtrack(b, circ) == backtrack_from(b, circ, Len(b.cx_count_circs) - 1, <<>>)

\* intersect: the elements `.next()` may return
intersect(frontier1, frontier2) ==
    IF frontier1.some /\ frontier2.some THEN frontier1.set \cap frontier2.set ELSE {}

\* the two backtracks joined the other way round
backtrack_mitm_swapped(fw, bw, circ) ==
    LET b == backtrack(bw, circ)
        f == backtrack(fw, circ)
    IN  [ok |-> b.ok /\ f.ok, moves |-> f.moves \o Reverse(b.moves)]

\* backtrack_mitm
backtrack_mitm(fw, bw, circ) ==
    LET b == backtrack(bw, circ)
        f == backtrack(fw, circ)
    IN  [ok |-> b.ok /\ f.ok, moves |-> Reverse(b.moves) \o f.moves]

\* backtrack_mitm_extra
backtrack_mitm_extra(fw, bw, circ_forward, circ_mid, circ_backward) ==
    LET b == backtrack(bw, circ_backward)
        m == backtrack(fw, circ_mid)
        f == backtrack(fw, circ_forward)
    IN  [ok |-> b.ok /\ m.ok /\ f.ok, moves |-> Reverse(b.moves) \o m.moves \o f.moves]

\* main.rs: moves.iter().map(|mv| move_inds[*mv].into())
to_cxs(inds, mvs) == [k \in 1 .. Len(mvs) |-> inds[mvs[k] + 1]]

\* the end of a mitm_bfs call that backtracks: Some(moves), or the panic
MitmReturn(bt) ==
    /\ pc' = (IF bt.ok THEN "returned" ELSE "panic")
    /\ mitm_result' = (IF bt.ok THEN Some(bt.moves) ELSE mitm_result)
    /\ solution' = (IF bt.ok THEN Some(to_cxs(move_inds, bt.moves)) ELSE solution)

\* `if max_steps < 1 { return None; }`
MitmNoSteps ==
    /\ pc = "fwd"
    /\ max_steps < 1
    /\ pc' = "returned"
    /\ mitm_result' = NoSolution
    /\ solution' = NoSolution
    /\ UNCHANGED <<input_vars, astar_vars, forward, backward, forward_frontier,
                   backward_frontier, n_cx, found, output>>

\* forward.step() and an empty intersection
MitmForwardMiss ==
    /\ pc = "fwd"
    /\ max_steps >= 1
    /\ LET r == bfs_step(forward)
       IN  /\ intersect(SomeSet(r.new_circs), backward_frontier) = {}
           /\ forward' = r.bfs
           /\ forward_frontier' = SomeSet(r.new_circs)
    /\ pc' = "bwd"
    /\ UNCHANGED <<input_vars, astar_vars, backward, backward_frontier, n_cx, found,
                   mitm_result, solution, output>>

\* forward.step() and a common element: backtrack_mitm
MitmForwardHit ==
    /\ pc = "fwd"
    /\ max_steps >= 1
    /\ LET r == bfs_step(forward)
       IN  /\ forward' = r.bfs
           /\ forward_frontier' = SomeSet(r.new_circs)
           /\ \E circ \in intersect(SomeSet(r.new_circs), backward_frontier) :
                MitmReturn(backtrack_mitm(r.bfs, backward, circ))
    /\ found' = [at |-> "forward", round |-> n_cx]
    /\ UNCHANGED <<input_vars, astar_vars, backward, backward_frontier, n_cx, output>>

\* backward.step() and an empty intersection: the next round, the
\* extrapolation, or None
MitmBackwardMiss ==
    /\ pc = "bwd"
    /\ LET r == bfs_step(backward)
       IN  /\ intersect(forward_frontier, SomeSet(r.new_circs)) = {}
           /\ backward' = r.bfs
           /\ backward_frontier' = SomeSet(r.new_circs)
    /\ IF n_cx < max_steps
       THEN /\ n_cx' = n_cx + 1
            /\ pc' = "fwd"
            /\ UNCHANGED <<mitm_result, solution>>
       ELSE IF extrapolate
            THEN /\ pc' = "extra"
                 /\ UNCHANGED <<n_cx, mitm_result, solution>>
            ELSE /\ pc' = "returned"
                 /\ mitm_result' = NoSolution
                 /\ solution' = NoSolution
                 /\ UNCHANGED n_cx
    /\ UNCHANGED <<input_vars, astar_vars, forward, forward_frontier, found, output>>

\* backward.step() and a common element: backtrack_mitm
MitmBackwardHit ==
    /\ pc = "bwd"
    /\ LET r == bfs_step(backward)
       IN  /\ backward' = r.bfs
           /\ backward_frontier' = SomeSet(r.new_circs)
           /\ \E circ \in intersect(forward_frontier, SomeSet(r.new_circs)) :
                MitmReturn(backtrack_mitm(forward, r.bfs, circ))
    /\ found' = [at |-> "backward", round |-> n_cx]
    /\ UNCHANGED <<input_vars, astar_vars, forward, forward_frontier, n_cx, output>>

\* the pairs (f, key) of one extrapolation depth that `find` may return:
\* f in the forward frontier, key in forward layer extra_depth, with
\* f.mult_transpose(key.transpose()) in the backward frontier
extra_hits(extra_depth) ==
    {h \in forward_frontier.set \X DOMAIN layer(forward, extra_depth) :
        mult_transpose(h[1], transpose(h[2])) \in backward_frontier.set}

\* the first extra_depth of `for extra_depth in 1..=forward.depth()` with a hit
first_extra ==
    IF \E d \in 1 .. bfs_depth(forward) : extra_hits(d) # {}
    THEN CHOOSE d \in 1 .. bfs_depth(forward) :
            /\ extra_hits(d) # {}
            /\ \A d2 \in 1 .. (d - 1) : extra_hits(d2) = {}
    ELSE None

\* the extrapolation finds a pair: backtrack_mitm_extra
MitmExtraHit ==
    /\ pc = "extra"
    /\ first_extra # None
    /\ \E h \in extra_hits(first_extra) :
        LET extra_moves == transpose(h[2])
            circ_backward == mult_transpose(h[1], extra_moves)
            circ_forward == mult_transpose(circ_backward, extra_moves)
            circ_mid == transpose(extra_moves)
        IN  MitmReturn(backtrack_mitm_extra(forward, backward, circ_forward, circ_mid,
                                            circ_backward))
    /\ found' = [at |-> "extra", round |-> first_extra]
    /\ UNCHANGED <<input_vars, astar_vars, forward, backward, forward_frontier,
                   backward_frontier, n_cx, output>>

\* the extrapolation finds nothing: None
MitmExtraMiss ==
    /\ pc = "extra"
    /\ first_extra = None
    /\ pc' = "returned"
    /\ mitm_result' = NoSolution
    /\ solution' = NoSolution
    /\ UNCHANGED <<input_vars, astar_vars, forward, backward, forward_frontier,
                   backward_frontier, n_cx, found, output>>

\* bfs: a step whose frontier holds the target, and its backtrack
BfsHit ==
    /\ pc = "bfs"
    /\ n_cx <= max_steps
    /\ LET r == bfs_step(forward)
       IN  /\ target \in r.new_circs
           /\ forward' = r.bfs
           /\ forward_frontier' = SomeSet(r.new_circs)
           /\ MitmReturn(backtrack(r.bfs, target))
    /\ found' = [at |-> "bfs", round |-> n_cx]
    /\ UNCHANGED <<input_vars, astar_vars, backward, backward_frontier, n_cx, output>>

\* bfs: a step whose frontier does not hold the target
BfsMiss ==
    /\ pc = "bfs"
    /\ n_cx <= max_steps
    /\ LET r == bfs_step(forward)
       IN  /\ target \notin r.new_circs
           /\ forward' = r.bfs
           /\ forward_frontier' = SomeSet(r.new_circs)
    /\ n_cx' = n_cx + 1
    /\ UNCHANGED <<input_vars, astar_vars, backward, backward_frontier, found,
                   mitm_result, pc, solution, output>>

\* bfs: the loop ends without the target
BfsNone ==
    /\ pc = "bfs"
    /\ n_cx > max_steps
    /\ pc' = "returned"
    /\ mitm_result' = NoSolution
    /\ solution' = NoSolution
    /\ UNCHANGED <<input_vars, astar_vars, forward, backward, forward_frontier,
                   backward_frontier, n_cx, found, output>>

MitmStep ==
    \/ MitmNoSteps
    \/ MitmForwardMiss
    \/ MitmForwardHit
    \/ MitmBackwardMiss
    \/ MitmBackwardHit
    \/ MitmExtraHit
    \/ MitmExtraMiss

BfsStep == BfsHit \/ BfsMiss \/ BfsNone

\* ------------------------------------------------------------------ main

\* main.rs: the solution is written only after check_solution_correctness
written_output(sol, source, tgt) ==
    IF sol.some
    THEN IF check_solution_correctness(sol.sol, source, tgt)
         THEN [written |-> TRUE, sol |-> sol.sol]
         ELSE NotWritten
    ELSE NotWritten

MainWrite ==
    /\ pc = "returned"
    /\ pc' = "exit"
    /\ output' = written_output(solution, start, target)
    /\ UNCHANGED <<input_vars, astar_vars, mitm_vars, solution>>

\* ------------------------------------------------------------------ inputs

\* the gates the allowed-move sets are drawn from
Pool == {CX(0, 1), CX(0, 2), CX(1, 2), CX(2, 3), CX(0, 3)}

\* the allowed gates of the depth-4 search
DeepMoves == {CX(0, 1), CX(1, 2), CX(0, 3), CX(2, 1)}

MoveSets == {S \in SUBSET Pool : Cardinality(S) >= 1 /\ Cardinality(S) <= MaxMoves}

\* the values at most n gates of S away from the values in V
RECURSIVE Within(_, _, _)
Within(V, S, n) ==
    IF n = 0 THEN V
    ELSE Within(V \cup {cx(v, m.ctrl, m.tgt) : v \in V, m \in S}, S, n - 1)

\* file_io.rs parse_moves, one move: the transposed matrix of the gate
move_matrix(g) == transpose(from_cxs(<<g>>))

IdleAStar ==
    /\ graph = AStarGraph_new(eye, {})
    /\ pq = {}
    /\ min_solution = NoSolution
    /\ max_cost = None
    /\ popped = None
    /\ max_depth = None

IdleMitm ==
    /\ moves = <<>>
    /\ max_steps = 0
    /\ extrapolate = FALSE
    /\ forward = BFS_new(eye, <<>>)
    /\ backward = BFS_new(eye, <<>>)
    /\ forward_frontier = NoSet
    /\ backward_frontier = NoSet
    /\ n_cx = 0
    /\ found = NotFound
    /\ mitm_result = NoSolution

\* a_star up to the loop: the graph of the root, the root queued
AStarStart(s, t, allowed, depth) ==
    /\ start = s
    /\ target = t
    /\ max_depth = depth
    /\ move_inds = IterOrder(allowed)
    /\ graph = AStarGraph_new(s, allowed)
    /\ pq = pq_push({}, root_ind, dist(s, t), 0)
    /\ min_solution = NoSolution
    /\ max_cost = None
    /\ popped = None
    /\ pc = "loop"
    /\ solution = NoSolution
    /\ output = NotWritten

\* mitm_bfs up to the loop: the two BFS instances, no frontier yet
MitmStart(t, inds, steps, extra) ==
    /\ start = eye
    /\ target = t
    /\ move_inds = inds
    /\ moves = [k \in 1 .. Len(inds) |-> move_matrix(inds[k])]
    /\ max_steps = steps
    /\ extrapolate = extra
    /\ forward = BFS_new(new, [k \in 1 .. Len(inds) |-> move_matrix(inds[k])])
    /\ backward = BFS_new(t, [k \in 1 .. Len(inds) |-> move_matrix(inds[k])])
    /\ forward_frontier = NoSet
    /\ backward_frontier = NoSet
    /\ n_cx = 1
    /\ found = NotFound
    /\ mitm_result = NoSolution
    /\ pc = "fwd"
    /\ solution = NoSolution
    /\ output = NotWritten

\* bfs up to the loop: one BFS rooted at identity
BfsStart(t, inds, steps) ==
    /\ start = eye
    /\ target = t
    /\ move_inds = inds
    /\ moves = [k \in 1 .. Len(inds) |-> move_matrix(inds[k])]
    /\ max_steps = steps
    /\ extrapolate = FALSE
    /\ forward = BFS_new(new, [k \in 1 .. Len(inds) |-> move_matrix(inds[k])])
    /\ backward = BFS_new(t, <<>>)
    /\ forward_frontier = NoSet
    /\ backward_frontier = NoSet
    /\ n_cx = 1
    /\ found = NotFound
    /\ mitm_result = NoSolution
    /\ pc = "bfs"
    /\ solution = NoSolution
    /\ output = NotWritten

\* the source values: identity and one value next to it
Starts == {eye, cx(eye, 3, 0)}

AStarInit ==
    \E allowed \in MoveSets, s \in Starts, depth \in 0 .. MaxDepth :
        \E t \in Within({s}, allowed, MaxTargetLen) :
            algo = "astar" /\ AStarStart(s, t, allowed, depth) /\ IdleMitm

MitmInit ==
    \E allowed \in MoveSets, steps \in 0 .. MaxSteps :
        \E t \in Within({eye}, allowed, 3 * MaxSteps + 1) :
            /\ \/ \E extra \in BOOLEAN :
                    algo = "mitm" /\ MitmStart(t, IterOrder(allowed), steps, extra)
               \/ algo = "bfs" /\ BfsStart(t, IterOrder(allowed), steps)
            /\ IdleAStar

AStarNext == AStarStep \/ MainWrite

\* a_star on every input, and what main does with its result
SpecAStar == AStarInit /\ [][AStarNext]_vars

MitmNext == MitmStep \/ BfsStep \/ MainWrite

\* mitm_bfs and bfs on every input, and what main does with the result
SpecMitm == MitmInit /\ [][MitmNext]_vars

Init == AStarInit \/ MitmInit

Next == AStarStep \/ MitmStep \/ BfsStep \/ MainWrite

\* every search
Spec == Init /\ [][Next]_vars

\* ------------------------------------------- a_star, then mitm_bfs

\* the same target and moves handed to mitm_bfs once a_star has returned:
\* of a_star's state only the value it returned, min_solution, lives on
CompareSwitch ==
    /\ algo = "compare"
    /\ pc = "returned"
    /\ \E steps \in 0 .. MaxSteps, extra \in BOOLEAN :
        /\ max_steps' = steps
        /\ extrapolate' = extra
    /\ algo' = "compared"
    /\ moves' = [k \in 1 .. Len(move_inds) |-> move_matrix(move_inds[k])]
    /\ forward' = BFS_new(new, [k \in 1 .. Len(move_inds) |-> move_matrix(move_inds[k])])
    /\ backward' = BFS_new(target, [k \in 1 .. Len(move_inds) |-> move_matrix(move_inds[k])])
    /\ n_cx' = 1
    /\ pc' = "fwd"
    /\ solution' = NoSolution
    /\ graph' = AStarGraph_new(eye, {})
    /\ pq' = {}
    /\ max_cost' = None
    /\ popped' = None
    /\ UNCHANGED <<start, target, max_depth, move_inds, min_solution, forward_frontier,
                   backward_frontier, found, mitm_result, output>>

CompareInit ==
    \E allowed \in {S \in MoveSets : Cardinality(S) <= MaxCompareMoves},
       depth \in 1 .. MaxCompareDepth :
        \E t \in Within({eye}, allowed, MaxTargetLen + 1) :
            algo = "compare" /\ AStarStart(eye, t, allowed, depth) /\ IdleMitm

CompareNext == AStarStep \/ CompareSwitch \/ MitmStep

SpecCompare == CompareInit /\ [][CompareNext]_vars

\* ------------------------------------- the graph under arbitrary calls

\* some add_cx call
GraphAddCx ==
    /\ pc = "calls"
    /\ Len(graph.nodes) < MaxNodes
    /\ \E nd \in 0 .. (Len(graph.nodes) - 1), op \in graph.allowed_moves :
        LET r == add_cx(graph, nd, op)
        IN  /\ graph' = r.graph
            /\ popped' = r.ind
    /\ UNCHANGED <<input_vars, pq, min_solution, max_cost, mitm_vars, pc, solution, output>>

\* some add_merge call
GraphAddMerge ==
    /\ pc = "calls"
    /\ Len(graph.nodes) < MaxNodes
    /\ \E src1 \in 0 .. (Len(graph.nodes) - 1), src2 \in 0 .. (Len(graph.nodes) - 1),
          used_qubits \in SUBSET Qubits :
        LET r == add_merge(graph, src1, src2, used_qubits)
        IN  /\ graph' = r.graph
            /\ popped' = r.ind
    /\ UNCHANGED <<input_vars, pq, min_solution, max_cost, mitm_vars, pc, solution, output>>

GraphInit ==
    /\ algo = "graph"
    /\ start \in Starts
    /\ target = eye
    /\ move_inds = IterOrder(Pool)
    /\ graph = AStarGraph_new(start, Pool)
    /\ pq = {}
    /\ min_solution = NoSolution
    /\ max_cost = None
    /\ popped = root_ind
    /\ max_depth = None
    /\ pc = "calls"
    /\ solution = NoSolution
    /\ output = NotWritten
    /\ IdleMitm

GraphNext == GraphAddCx \/ GraphAddMerge

SpecGraph == GraphInit /\ [][GraphNext]_vars

\* some expand_children call, with the closure a_star passes or one that
\* answers true on every qubit
GraphExpand ==
    /\ pc = "calls"
    /\ Len(graph.nodes) < MaxNodes
    /\ \E ind \in 0 .. (Len(graph.nodes) - 1) :
        \E complete \in {complete_qubits(value(graph, ind), target), Qubits} :
            /\ graph' = expand_children(graph, ind, complete)
            /\ popped' = ind
    /\ UNCHANGED <<input_vars, pq, min_solution, max_cost, mitm_vars, pc, solution, output>>

GraphCallsNext == GraphAddCx \/ GraphAddMerge \/ GraphExpand

\* the graph under arbitrary add_cx, add_merge and expand_children calls
SpecGraphCalls == GraphInit /\ [][GraphCallsNext]_vars

\* ------------------------------------- a_star at depth 4, first iterations

\* the first iterations of a_star on the identity with four moves of which
\* two are each other's reverse, while the graph has fewer than
\* MaxDeepNodes nodes
DeepInit ==
    /\ algo = "astar"
    /\ AStarStart(eye, eye, DeepMoves, DeepDepth)
    /\ IdleMitm

DeepExpand ==
    /\ Len(graph.nodes) < MaxDeepNodes
    /\ AStarExpand

SpecDeep == DeepInit /\ [][DeepExpand]_vars

\* ------------------------------------------------ one BFS instance, stepped

\* BFS::new on some root and some single-CX moves
LayersInit ==
    /\ algo = "layers"
    /\ \E allowed \in MoveSets, root \in Starts \cup {from_cxs(<<CX(0, 1), CX(1, 2)>>)} :
        /\ start = root
        /\ move_inds = IterOrder(allowed)
        /\ moves = [k \in 1 .. Len(IterOrder(allowed)) |-> move_matrix(IterOrder(allowed)[k])]
        /\ forward = BFS_new(root, [k \in 1 .. Len(IterOrder(allowed)) |->
                                        move_matrix(IterOrder(allowed)[k])])
    /\ target = eye
    /\ IdleAStar
    /\ max_steps = MaxLayers
    /\ extrapolate = FALSE
    /\ backward = BFS_new(eye, <<>>)
    /\ forward_frontier = NoSet
    /\ backward_frontier = NoSet
    /\ n_cx = 0
    /\ found = NotFound
    /\ mitm_result = NoSolution
    /\ pc = "steps"
    /\ solution = NoSolution
    /\ output = NotWritten

\* one BFS::step call
LayersStep ==
    /\ pc = "steps"
    /\ bfs_depth(forward) < max_steps
    /\ forward' = bfs_step(forward).bfs
    /\ forward_frontier' = SomeSet(bfs_step(forward).new_circs)
    /\ n_cx' = n_cx + 1
    /\ UNCHANGED <<input_vars, astar_vars, backward, backward_frontier, found,
                   mitm_result, pc, solution, output>>

SpecLayers == LayersInit /\ [][LayersStep]_vars

\* ------------------------------------------------ the value operations

\* stab_state.rs is_set
is_set(x) == x = "X"

\* StabiliserState::from_strs: bit j of row i is set when character j of
\* string i is X; rows without a string stay zero
from_strs(x_stabs_str) ==
    [i \in Qubits |->
        IF i + 1 <= Len(x_stabs_str)
        THEN {j \in Qubits : j + 1 <= Len(x_stabs_str[i + 1]) /\ is_set(x_stabs_str[i + 1][j + 1])}
        ELSE {}]

\* StabiliserState::dist
StabiliserState_dist(a, b) == Cardinality({q \in Qubits : a[q] # b[q]})

\* a cx that adds the row of tgt to the row of ctrl
StabiliserState_cx_reversed(v, ctrl, tgt) == [v EXCEPT ![ctrl] = Xor(v[ctrl], v[tgt])]

\* StabiliserState::cx: x_stabs[tgt] ^= x_stabs[ctrl]
StabiliserState_cx(v, ctrl, tgt) == [v EXCEPT ![tgt] = Xor(v[tgt], v[ctrl])]

\* CircuitOrStabiliser::dist, for two values of the same kind
CircuitOrStabiliser_dist(kind, a, b) ==
    IF kind = "Stabiliser" THEN StabiliserState_dist(a, b) ELSE dist(a, b)

\* CircuitOrStabiliser::cx
CircuitOrStabiliser_cx(kind, v, ctrl, tgt) ==
    IF kind = "Stabiliser" THEN StabiliserState_cx(v, ctrl, tgt) ELSE cx(v, ctrl, tgt)

\* the circuits the operations are tried on
CircuitInputs ==
    {from_cxs(<<>>), from_cxs(<<CX(0, 1)>>), from_cxs(<<CX(0, 1), CX(1, 2)>>),
     from_cxs(<<CX(3, 0), CX(1, 0), CX(2, 3)>>)}

\* the stabiliser files the operations are tried on, one string per row
StabiliserInputs ==
    {<<<<"X", "I", "I", "I">>, <<"I", "X", "I", "I">>,
       <<"I", "I", "X", "I">>, <<"I", "I", "I", "X">>>>,
     <<<<"X", "X", "I", "I">>, <<"X", "X", "I", "I">>,
       <<"I", "I", "I", "I">>, <<"I", "X", "X", "X">>>>,
     <<<<"X", "X", "X", "X">>, <<"I", "X", "I", "X">>, <<"I", "I", "X", "X">>>>}

\* one cx on the value under test
AlgCx ==
    /\ pc = "ops"
    /\ n_cx < MaxOps
    /\ \E ctrl \in Qubits, tgt \in Qubits :
        /\ ctrl # tgt
        /\ start' = CircuitOrStabiliser_cx(algo, start, ctrl, tgt)
    /\ n_cx' = n_cx + 1
    /\ UNCHANGED <<algo, target, max_depth, move_inds, moves, max_steps, extrapolate,
                   astar_vars, forward, backward, forward_frontier, backward_frontier,
                   found, mitm_result, pc, solution, output>>

\* one transpose of the circuit under test
AlgTranspose ==
    /\ pc = "ops"
    /\ algo = "Circuit"
    /\ n_cx < MaxOps
    /\ start' = transpose(start)
    /\ n_cx' = n_cx + 1
    /\ UNCHANGED <<algo, target, max_depth, move_inds, moves, max_steps, extrapolate,
                   astar_vars, forward, backward, forward_frontier, backward_frontier,
                   found, mitm_result, pc, solution, output>>

\* one mult_transpose or mult of the circuit under test with the other one
AlgMult ==
    /\ pc = "ops"
    /\ algo = "Circuit"
    /\ n_cx < MaxOps
    /\ \/ start' = mult_transpose(start, target)
       \/ start' = mult(start, target)
    /\ n_cx' = n_cx + 1
    /\ UNCHANGED <<algo, target, max_depth, move_inds, moves, max_steps, extrapolate,
                   astar_vars, forward, backward, forward_frontier, backward_frontier,
                   found, mitm_result, pc, solution, output>>

AlgInit ==
    /\ \/ algo = "Circuit" /\ start \in CircuitInputs /\ target \in CircuitInputs
       \/ /\ algo = "Stabiliser"
          /\ start \in {from_strs(s) : s \in StabiliserInputs}
          /\ target \in {from_strs(s) : s \in StabiliserInputs}
    /\ move_inds = <<>>
    /\ IdleAStar
    /\ moves = <<>>
    /\ max_steps = 0
    /\ extrapolate = FALSE
    /\ forward = BFS_new(eye, <<>>)
    /\ backward = BFS_new(eye, <<>>)
    /\ forward_frontier = NoSet
    /\ backward_frontier = NoSet
    /\ n_cx = 0
    /\ found = NotFound
    /\ mitm_result = NoSolution
    /\ pc = "ops"
    /\ solution = NoSolution
    /\ output = NotWritten

AlgNext == AlgCx \/ AlgTranspose \/ AlgMult

\* the operations of a value, applied to bounded inputs
SpecAlgebra == AlgInit /\ [][AlgNext]_vars

\* ------------------------------------------------------------ properties

\* the gates of the allowed-move list
AllowedSet == {move_inds[k] : k \in 1 .. Len(move_inds)}

\* the least number of allowed gates that take a value of V to t, counting
\* from n, or None beyond `bound`
RECURSIVE DistFrom(_, _, _, _)
DistFrom(V, t, n, bound) ==
    IF t \in V THEN n
    ELSE IF n >= bound THEN None
    ELSE DistFrom(V \cup {cx(v, m.ctrl, m.tgt) : v \in V, m \in AllowedSet}, t, n + 1, bound)

\* the minimum distance from start to target when it is at most `bound`
MinGates(bound) == DistFrom({start}, target, 0, bound)

Returned == pc \in {"returned", "exit"}

\* C1: whenever a_star returns Some(seq), applying the gates of seq in order
\* with cx to the start value yields exactly the target value.
C1_ReplayYieldsTarget ==
    (algo = "astar" /\ solution.some) => Replay(start, solution.sol) = target

\* C2: whenever mitm_bfs without extrapolation, or bfs, returns Some(indices),
\* the gates of those indices applied in order with add_cx to identity give
\* the target; forward is rooted at identity, backward at the target, and
\* the result of mitm_bfs is the reversed backward backtrack of a common
\* element followed by its forward backtrack.
C2_MitmReplay ==
    (algo \in {"mitm", "bfs"} /\ found.at \in {"forward", "backward", "bfs"}
        /\ mitm_result.some)
    => /\ from_cxs(to_cxs(move_inds, mitm_result.sol)) = target
       /\ DOMAIN layer(forward, 0) = {eye}
       /\ DOMAIN layer(backward, 0) = {target}
       /\ algo = "mitm" =>
            \E circ \in intersect(forward_frontier, backward_frontier) :
                mitm_result.sol =
                    Reverse(backtrack(backward, circ).moves) \o backtrack(forward, circ).moves

\* a hit after the backward advance of round 2: two gates from each side
C2_Witness ==
    /\ algo = "mitm"
    /\ ~extrapolate
    /\ found = [at |-> "backward", round |-> 2]
    /\ mitm_result.some
    /\ Len(mitm_result.sol) = 4

\* C3: on an input (identity source, same target, same moves) on which
\* a_star and mitm_bfs both return a solution, a_star's sequence is no
\* longer than mitm_bfs's.
C3_AStarNoLonger ==
    (algo = "compared" /\ pc = "returned" /\ min_solution.some /\ mitm_result.some)
    => Len(min_solution.sol) <= Len(mitm_result.sol)

\* C4: mitm_bfs without extrapolation returns exactly d gates for every
\* target at minimum distance d <= 2*max_steps; a hit after the forward
\* advance of round k has 2k-1 gates, one after the backward advance 2k.
C4_MitmOptimal ==
    (algo = "mitm" /\ ~extrapolate /\ Returned)
    => /\ (max_steps >= 1 /\ MinGates(2 * max_steps) # None)
            => (mitm_result.some /\ Len(mitm_result.sol) = MinGates(2 * max_steps))
       /\ (mitm_result.some /\ found.at = "forward")
            => Len(mitm_result.sol) = 2 * found.round - 1
       /\ (mitm_result.some /\ found.at = "backward")
            => Len(mitm_result.sol) = 2 * found.round

\* C5: if the target is at most max_depth allowed gates from the start,
\* a_star returns Some solution, and its length is that minimum.
C5_Complete ==
    (algo = "astar" /\ Returned /\ MinGates(max_depth) # None)
    => (solution.some /\ Len(solution.sol) = MinGates(max_depth))

\* C6: mitm_bfs with extrapolation, on a target at minimum distance d with
\* 2*max_steps < d <= 3*max_steps, returns exactly d gates that replay from
\* identity to the target, and does not fail in the backtracking.
C6_Extrapolation ==
    (algo = "mitm" /\ extrapolate /\ pc \in {"returned", "exit", "panic"}
        /\ MinGates(2 * max_steps) = None /\ MinGates(3 * max_steps) # None)
    => /\ pc # "panic"
       /\ mitm_result.some
       /\ Len(mitm_result.sol) = MinGates(3 * max_steps)
       /\ from_cxs(to_cxs(move_inds, mitm_result.sol)) = target

\* C7: a_star never aborts; when the priority queue becomes empty it
\* returns the best solution recorded so far.
C7_NeverAborts == algo = "astar" => pc # "panic"

\* C8: the gate of every Op edge of a graph built by expand_children, and
\* every gate of a sequence a_star returns, is in the allowed-move set.
C8_GatesAllowed ==
    algo = "astar" =>
        /\ \A i \in 1 .. Len(graph.nodes) :
            /\ graph.nodes[i].prev.type = "Op" => graph.nodes[i].prev.op \in AllowedSet
            /\ \A k \in 1 .. Len(graph.nodes[i].next) :
                graph.nodes[i].next[k].type = "Op"
                    => graph.nodes[i].next[k].op \in AllowedSet
        /\ \A k \in 1 .. Len(min_solution.sol) : min_solution.sol[k] \in AllowedSet
        /\ \A k \in 1 .. Len(solution.sol) : solution.sol[k] \in AllowedSet

\* a_star has returned from a graph that holds an Op edge after an Op edge
\* and an Op edge after a Merge edge
C8_Witness ==
    /\ algo = "astar"
    /\ pc = "returned"
    /\ \E i \in 1 .. Len(graph.nodes) :
        /\ graph.nodes[i].prev.type = "Op"
        /\ prev_edge(graph, graph.nodes[i].prev.src).type = "Merge"
    /\ \E i \in 1 .. Len(graph.nodes) :
        /\ graph.nodes[i].prev.type = "Op"
        /\ prev_edge(graph, graph.nodes[i].prev.src).type = "Op"

\* C9: the output is written only if the search returned a solution whose
\* replay from the source with cx equals the target; on a mismatch, or when
\* the search returns none, nothing is written.
C9_WriteOnlyChecked ==
    /\ output.written
        => /\ solution.some
           /\ output.sol = solution.sol
           /\ Replay(start, solution.sol) = target
    /\ (pc = "exit" /\ (~solution.some \/ Replay(start, solution.sol) # target))
        => ~output.written

\* main refused to write a solution whose replay misses the target
C9_Witness ==
    /\ pc = "exit"
    /\ solution.some
    /\ Replay(start, solution.sol) # target
    /\ ~output.written

\* C10: after any sequence of add_cx and add_merge calls no two node indices
\* map to the same value, and every node index has exactly one value.
C10_Dedup ==
    algo = "graph" =>
        /\ \A p \in graph.values, q \in graph.values : p[2] = q[2] => p[1] = q[1]
        /\ \A ind \in 0 .. (Len(graph.nodes) - 1) :
            Cardinality({p \in graph.values : p[1] = ind}) = 1
        /\ \A p \in graph.values : p[1] \in 0 .. (Len(graph.nodes) - 1)

\* a call that added nothing, on a graph that holds a merge node
C10_Witness ==
    /\ algo = "graph"
    /\ popped = None
    /\ Len(graph.nodes) >= 3
    /\ \E i \in 1 .. Len(graph.nodes) : graph.nodes[i].prev.type = "Merge"

\* C11: an add_cx or add_merge call whose computed value is already in the
\* graph returns none and leaves the graph as it was: the node list, the
\* value map and every node's prev, next, cost and stats.
C11_FailedCallFrame ==
    algo = "graph" =>
        /\ \A nd \in 0 .. (Len(graph.nodes) - 1), op \in graph.allowed_moves :
            contains_right(graph.values, cx(value(graph, nd), op.ctrl, op.tgt))
                => add_cx(graph, nd, op) = [graph |-> graph, ind |-> None]
        /\ \A src1 \in 0 .. (Len(graph.nodes) - 1), src2 \in 0 .. (Len(graph.nodes) - 1),
              used_qubits \in SUBSET Qubits :
            contains_right(graph.values,
                           merge(value(graph, src1), value(graph, src2), used_qubits))
                => add_merge(graph, src1, src2, used_qubits)
                       = [graph |-> graph, ind |-> None]

\* the last call returned none, and the graph has a gate whose value some
\* other node already holds and a merge of two distinct nodes that does too
C11_Witness ==
    /\ algo = "graph"
    /\ popped = None
    /\ \E nd \in 0 .. (Len(graph.nodes) - 1), op \in graph.allowed_moves :
        contains_right(graph.values, cx(value(graph, nd), op.ctrl, op.tgt))
    /\ \E src1 \in 0 .. (Len(graph.nodes) - 1), src2 \in 0 .. (Len(graph.nodes) - 1) :
        /\ src1 # src2
        /\ contains_right(graph.values,
                          merge(value(graph, src1), value(graph, src2), {0, 1}))
        /\ merge(value(graph, src1), value(graph, src2), {0, 1}) # value(graph, src1)

\* the nodes with an Op prev edge in the prev-edge ancestry of `ind`, `ind`
\* included: one node per CX gate of its history
RECURSIVE history(_, _)
history(g, ind) ==
    LET e == prev_edge(g, ind)
    IN  IF e.type = "Op" THEN {ind} \cup history(g, e.src)
        ELSE IF e.type = "Merge" THEN history(g, e.src1) \cup history(g, e.src2)
        ELSE {}

\* the qubits touched by the gates of a set of Op nodes
touched(g, S) == UNION {{prev_edge(g, i).op.ctrl, prev_edge(g, i).op.tgt} : i \in S}

\* the merge nodes of the graph
merge_nodes(g) == {m \in 0 .. (Len(g.nodes) - 1) : prev_edge(g, m).type = "Merge"}

\* C12: for every merge node created by expand_children, the qubits touched
\* by the gates in the history of its src1 and the qubits touched by the
\* gates in the history of its src2 are disjoint.
C12_DisjointHistories ==
    algo = "astar" =>
        \A m \in merge_nodes(graph) :
            touched(graph, history(graph, prev_edge(graph, m).src1))
                \cap touched(graph, history(graph, prev_edge(graph, m).src2)) = {}

\* C12 as the code has it: the gates that are in the history of one source
\* only touch qubits disjoint from those of the gates in the history of the
\* other source only; the gates of common ancestors are shared.
C12_DisjointExclusiveHistories ==
    algo = "astar" =>
        \A m \in merge_nodes(graph) :
            LET h1 == history(graph, prev_edge(graph, m).src1)
                h2 == history(graph, prev_edge(graph, m).src2)
            IN  touched(graph, h1 \ h2) \cap touched(graph, h2 \ h1) = {}

\* a merge node whose sources share a gate of a common ancestor
C12_Witness ==
    /\ algo = "astar"
    /\ \E m \in merge_nodes(graph) :
        LET h1 == history(graph, prev_edge(graph, m).src1)
            h2 == history(graph, prev_edge(graph, m).src2)
        IN  /\ h1 \cap h2 # {}
            /\ h1 \ h2 # {}
            /\ h2 \ h1 # {}

\* the orders of the gates of S in which every gate comes after the gates of
\* its own history
RECURSIVE interleavings(_, _)
interleavings(g, S) ==
    IF S = {} THEN {<<>>}
    ELSE UNION {{<<x>> \o s : s \in interleavings(g, S \ {x})} :
                x \in {y \in S : history(g, y) \cap S = {y}}}

\* the gates of a sequence of Op nodes
gates_of(g, s) == [k \in 1 .. Len(s) |-> prev_edge(g, s[k]).op]

\* C20: the value of every merge node created by expand_children equals the
\* replay from the root value of the gates in the history of either parent,
\* each gate once, in any order that is consistent with each parent's own
\* gate order.
C20_MergeIsConcatenation ==
    algo = "astar" =>
        \A m \in merge_nodes(graph) :
            \A s \in interleavings(graph, history(graph, m)) :
                Replay(value(graph, root_ind), gates_of(graph, s)) = value(graph, m)

\* a merge node of two sources that share a gate and own one gate each
C20_Witness ==
    /\ algo = "astar"
    /\ pc = "returned"
    /\ \E m \in merge_nodes(graph) :
        LET h1 == history(graph, prev_edge(graph, m).src1)
            h2 == history(graph, prev_edge(graph, m).src2)
        IN  /\ h1 \cap h2 # {}
            /\ h1 \ h2 # {}
            /\ h2 \ h1 # {}
            /\ Cardinality(interleavings(graph, history(graph, m))) >= 2

\* the nodes on the prev-edge ancestry of `ind`, `ind` included
RECURSIVE ancestry(_, _)
ancestry(g, ind) ==
    LET e == prev_edge(g, ind)
    IN  {ind} \cup (IF e.type = "Op" THEN ancestry(g, e.src)
                    ELSE IF e.type = "Merge"
                    THEN ancestry(g, e.src1) \cup ancestry(g, e.src2)
                    ELSE {})

\* the CX count of qubit qb in the stats of `ind`, zero beyond the vector
cx_count(g, ind, qb) ==
    IF qb + 1 <= Len(node(g, ind).stats) THEN node(g, ind).stats[qb + 1] ELSE 0

\* the children of the root that were added by add_cx
root_children(g) ==
    {c \in 0 .. (Len(g.nodes) - 1) :
        prev_edge(g, c).type = "Op" /\ prev_edge(g, c).src = root_ind}

\* C13: for a node a on the prev-edge ancestry of b, a's counts are
\* component-wise at most b's and disallowed_qubits(a, b) is exactly the set
\* of qubits whose count in b's stats exceeds their count in a's stats; for
\* a merge node of two children c1 and c2 of the root it is the qubits of
\* c2's gate for c1 and the qubits of c1's gate for c2.
C13_DisallowedQubits ==
    algo = "graph" =>
        /\ \A b \in 0 .. (Len(graph.nodes) - 1) :
            \A a \in ancestry(graph, b) :
                /\ \A qb \in Qubits : cx_count(graph, a, qb) <= cx_count(graph, b, qb)
                /\ disallowed_qubits(graph, a, b)
                       = {qb \in Qubits : cx_count(graph, b, qb) > cx_count(graph, a, qb)}
        /\ \A m \in merge_nodes(graph) :
            LET c1 == prev_edge(graph, m).src1
                c2 == prev_edge(graph, m).src2
            IN  (c1 \in root_children(graph) /\ c2 \in root_children(graph))
                => /\ disallowed_qubits(graph, c1, m) = touched(graph, {c2})
                   /\ disallowed_qubits(graph, c2, m) = touched(graph, {c1})

\* a merge node of two children of the root, and a gate added below a merge
\* node whose own ancestors leave some but not all of its qubits disallowed
C13_Witness ==
    /\ algo = "graph"
    /\ \E m \in merge_nodes(graph) :
        /\ prev_edge(graph, m).src1 \in root_children(graph)
        /\ prev_edge(graph, m).src2 \in root_children(graph)
        /\ \E b \in 0 .. (Len(graph.nodes) - 1) :
            /\ prev_edge(graph, b).type = "Op"
            /\ prev_edge(graph, b).src = m
            /\ disallowed_qubits(graph, prev_edge(graph, m).src1, b) # {}
            /\ disallowed_qubits(graph, prev_edge(graph, m).src1, b)
                   # disallowed_qubits(graph, root_ind, b)

\* C14: an add_cx(parent, (ctrl, tgt)) call that succeeds appends exactly
\* one node: its index is the old node count, its value is the parent's
\* value with cx(ctrl, tgt) applied, its cost is the parent's cost plus one,
\* its stats are the parent's, zero-extended, with the entries of ctrl and
\* tgt incremented, its prev is the Op edge from the parent, and that edge
\* is appended to the parent's next; nothing else changes, the parent's
\* cost, stats and prev included.
C14_AddCxPost ==
    algo = "graph" =>
        \A nd \in 0 .. (Len(graph.nodes) - 1), op \in graph.allowed_moves :
            LET r == add_cx(graph, nd, op)
                n == Len(graph.nodes)
                e == [type |-> "Op", op |-> op, src |-> nd, dst |-> n]
            IN  r.ind # None =>
                    /\ r.ind = n
                    /\ Len(r.graph.nodes) = n + 1
                    /\ value(r.graph, n) = cx(value(graph, nd), op.ctrl, op.tgt)
                    /\ \A i \in 0 .. (n - 1) : value(r.graph, i) = value(graph, i)
                    /\ Cardinality(r.graph.values) = n + 1
                    /\ cost(r.graph, n) = cost(graph, nd) + 1
                    /\ \A qb \in Qubits :
                        cx_count(r.graph, n, qb)
                            = cx_count(graph, nd, qb)
                              + (IF qb = op.ctrl THEN 1 ELSE 0) + (IF qb = op.tgt THEN 1 ELSE 0)
                    /\ Len(node(r.graph, n).stats)
                           = Max(Len(node(graph, nd).stats), Max(op.ctrl, op.tgt) + 1)
                    /\ prev_edge(r.graph, n) = e
                    /\ next_edges(r.graph, n) = <<>>
                    /\ next_edges(r.graph, nd) = Append(next_edges(graph, nd), e)
                    /\ \A i \in 0 .. (n - 1) :
                        /\ cost(r.graph, i) = cost(graph, i)
                        /\ node(r.graph, i).stats = node(graph, i).stats
                        /\ prev_edge(r.graph, i) = prev_edge(graph, i)
                        /\ i # nd => next_edges(r.graph, i) = next_edges(graph, i)
                    /\ r.graph.allowed_moves = graph.allowed_moves

\* the last call added a gate below a merge node, whose stats it had to
\* extend
C14_Witness ==
    /\ algo = "graph"
    /\ popped # None
    /\ popped = Len(graph.nodes) - 1
    /\ prev_edge(graph, popped).type = "Op"
    /\ prev_edge(graph, prev_edge(graph, popped).src).type = "Merge"
    /\ Len(node(graph, popped).stats) > Len(node(graph, prev_edge(graph, popped).src).stats)

\* C15: an add_merge(src1, src2, qubits) call that succeeds appends exactly
\* one node: its value is src1's value with the rows listed in qubits
\* replaced by src2's rows, its cost is the sum of the two costs, its stats
\* are the element-wise sum of the two stats, its prev is the Merge edge, and
\* that same edge is appended to the next of both src1 and src2.
C15_AddMergePost ==
    algo = "graph" =>
        \A src1 \in 0 .. (Len(graph.nodes) - 1), src2 \in 0 .. (Len(graph.nodes) - 1),
           used_qubits \in SUBSET Qubits :
            LET r == add_merge(graph, src1, src2, used_qubits)
                n == Len(graph.nodes)
                e == [type |-> "Merge", src1 |-> src1, src2 |-> src2, dst |-> n]
            IN  r.ind # None =>
                    /\ r.ind = n
                    /\ Len(r.graph.nodes) = n + 1
                    /\ \A q \in Qubits :
                        value(r.graph, n)[q]
                            = IF q \in used_qubits THEN value(graph, src2)[q]
                              ELSE value(graph, src1)[q]
                    /\ \A i \in 0 .. (n - 1) : value(r.graph, i) = value(graph, i)
                    /\ Cardinality(r.graph.values) = n + 1
                    /\ cost(r.graph, n) = cost(graph, src1) + cost(graph, src2)
                    /\ \A qb \in Qubits :
                        cx_count(r.graph, n, qb)
                            = cx_count(graph, src1, qb) + cx_count(graph, src2, qb)
                    /\ Len(node(r.graph, n).stats)
                           = Max(Len(node(graph, src1).stats), Len(node(graph, src2).stats))
                    /\ prev_edge(r.graph, n) = e
                    /\ next_edges(r.graph, n) = <<>>
                    /\ src1 # src2
                    /\ next_edges(r.graph, src1) = Append(next_edges(graph, src1), e)
                    /\ next_edges(r.graph, src2) = Append(next_edges(graph, src2), e)
                    /\ \A i \in 0 .. (n - 1) :
                        /\ cost(r.graph, i) = cost(graph, i)
                        /\ node(r.graph, i).stats = node(graph, i).stats
                        /\ prev_edge(r.graph, i) = prev_edge(graph, i)
                        /\ i \notin {src1, src2}
                            => next_edges(r.graph, i) = next_edges(graph, i)

\* the last call merged two nodes that both have gates, the first with the
\* shorter stats vector
C15_Witness ==
    /\ algo = "graph"
    /\ popped # None
    /\ popped = Len(graph.nodes) - 1
    /\ prev_edge(graph, popped).type = "Merge"
    /\ cost(graph, prev_edge(graph, popped).src1) >= 1
    /\ cost(graph, prev_edge(graph, popped).src2) >= 1
    /\ Len(node(graph, prev_edge(graph, popped).src1).stats)
           < Len(node(graph, prev_edge(graph, popped).src2).stats)

\* C16: for every CX-matrix value and every stabiliser value v and every
\* ctrl # tgt, v.cx(ctrl, tgt).cx(ctrl, tgt) = v, and one cx(ctrl, tgt) turns
\* row tgt into row tgt XOR row ctrl and leaves every other row as it was.
C16_CxTwiceIsIdentity ==
    algo \in {"Circuit", "Stabiliser"} =>
        \A ctrl \in Qubits, tgt \in Qubits :
            ctrl # tgt =>
                LET once == CircuitOrStabiliser_cx(algo, start, ctrl, tgt)
                IN  /\ CircuitOrStabiliser_cx(algo, once, ctrl, tgt) = start
                    /\ once[tgt] = Xor(start[tgt], start[ctrl])
                    /\ \A q \in Qubits \ {tgt} : once[q] = start[q]

\* a stabiliser value after two operations, with a zero row and two equal
\* rows, on which some cx changes a row
C16_Witness ==
    /\ algo = "Stabiliser"
    /\ n_cx = 2
    /\ \E q \in Qubits : start[q] = {}
    /\ \E q \in Qubits, r \in Qubits : q # r /\ start[q] = start[r] /\ start[q] # {}
    /\ \E ctrl \in Qubits, tgt \in Qubits :
        ctrl # tgt /\ StabiliserState_cx(start, ctrl, tgt) # start

\* C17: for invertible bit-matrices A and B, bit j of row i of
\* mult_transpose(A, B) is the parity of A.row[i] AND B.row[j], mult(A, B) =
\* mult_transpose(A, transpose(B)) and is the GF(2) product of A and B,
\* row j of transpose(A) is column j of A, and transpose(transpose(A)) = A.
C17_MultTranspose ==
    algo = "Circuit" =>
        /\ \A i \in Qubits, j \in Qubits :
            /\ (j \in mult_transpose(start, target)[i])
                   <=> (Cardinality({k \in Qubits : k \in start[i] /\ k \in target[j]}) % 2 = 1)
            /\ (j \in mult(start, target)[i])
                   <=> (Cardinality({k \in Qubits : k \in start[i] /\ j \in target[k]}) % 2 = 1)
            /\ (i \in transpose(start)[j]) <=> (j \in start[i])
        /\ mult(start, target) = mult_transpose(start, transpose(target))
        /\ transpose(transpose(start)) = start

\* two circuits that are not symmetric, one of them after two operations,
\* whose product differs from the product with the transpose
C17_Witness ==
    /\ algo = "Circuit"
    /\ n_cx = 2
    /\ transpose(start) # start
    /\ transpose(target) # target
    /\ mult(start, target) # mult_transpose(start, target)
    /\ mult(start, target) # mult(target, start)

\* the values at most n gates away from the values in V
RECURSIVE cx_reach(_, _, _)
cx_reach(kind, V, n) ==
    IF n <= 0 THEN V
    ELSE cx_reach(kind,
                  V \cup {CircuitOrStabiliser_cx(kind, x[1], x[2], x[3]) :
                            x \in {y \in V \X Qubits \X Qubits : y[2] # y[3]}},
                  n - 1)

\* C18: for CXCircuit16 and StabiliserState, every value v, target t and
\* gate with ctrl # tgt, dist(v.cx(ctrl, tgt), t) differs from dist(v, t) by
\* at most one, and dist(v, t) is at most the least number of CX gates that
\* take v to t.
C18_DistAdmissible ==
    algo \in {"Circuit", "Stabiliser"} =>
        LET d == CircuitOrStabiliser_dist(algo, start, target)
        IN  /\ \A ctrl \in Qubits, tgt \in Qubits :
                ctrl # tgt =>
                    LET e == CircuitOrStabiliser_dist(
                                 algo, CircuitOrStabiliser_cx(algo, start, ctrl, tgt), target)
                    IN  e - d \in {0 - 1, 0, 1}
            /\ d >= 1 => target \notin cx_reach(algo, {start}, d - 1)

\* a value three rows away from a target that three gates reach
C18_Witness ==
    /\ algo \in {"Circuit", "Stabiliser"}
    /\ n_cx >= 1
    /\ CircuitOrStabiliser_dist(algo, start, target) = 3
    /\ target \in cx_reach(algo, {start}, 3)

\* NonZeroU16::new(row) is Some for every row
non_zero_rows(v) == \A q \in Qubits : v[q] # {}

\* the circuits a BFS holds
bfs_circs(b) == UNION {DOMAIN b.cx_count_circs[d] : d \in 1 .. Len(b.cx_count_circs)}

\* C19: every CX-matrix value that occurs during a search has all rows
\* non-zero: the source and the target, the values of the A* graph and the
\* value add_cx computes for any node and allowed gate, the move matrices,
\* the circuits of both BFS instances and their frontiers, and the products
\* with a move and the transposes computed from them.
C19_RowsNonZero ==
    algo \in {"astar", "mitm", "bfs"} =>
        /\ non_zero_rows(start)
        /\ non_zero_rows(target)
        /\ \A p \in graph.values :
            /\ non_zero_rows(p[2])
            /\ \A op \in graph.allowed_moves : non_zero_rows(cx(p[2], op.ctrl, op.tgt))
        /\ \A k \in 1 .. Len(moves) : non_zero_rows(moves[k])
        /\ \A c \in bfs_circs(forward) \cup bfs_circs(backward)
                    \cup forward_frontier.set \cup backward_frontier.set :
            /\ non_zero_rows(c)
            /\ non_zero_rows(transpose(c))
            /\ \A k \in 1 .. Len(moves) : non_zero_rows(mult_transpose(c, moves[k]))

\* a_star has returned from a graph with a merge node, built from a source
\* that is not the identity
C19_Witness ==
    /\ algo = "astar"
    /\ pc = "returned"
    /\ start # eye
    /\ merge_nodes(graph) # {}
    /\ \E m \in merge_nodes(graph) : is_expanded(graph, m)

\* C21: for every node n of a graph a_star builds, replaying path(n) from
\* the root value yields the value of n, and path(n) holds each gate of the
\* history of n once.
C21_PathReplaysToValue ==
    algo = "astar" =>
        \A n \in 0 .. (Len(graph.nodes) - 1) :
            /\ Len(path(graph, n)) = Cardinality(history(graph, n))
            /\ Replay(value(graph, root_ind), path(graph, n)) = value(graph, n)

\* C22: for every node n of a graph a_star builds, cost(n) is the number of
\* gates of path(n); the cost of a merge node is the number of gates in the
\* union of its two parents' paths.
C22_CostIsPathLength ==
    algo = "astar" =>
        /\ \A n \in 0 .. (Len(graph.nodes) - 1) : cost(graph, n) = Len(path(graph, n))
        /\ \A m \in merge_nodes(graph) :
            cost(graph, m)
                = Cardinality(history(graph, prev_edge(graph, m).src1)
                              \cup history(graph, prev_edge(graph, m).src2))

\* the node that holds value v
get_by_right(values, v) == (CHOOSE p \in values : p[2] = v)[1]

\* the add_cx calls of one expansion that were rejected, each with the cost
\* of the node that holds the value and the cost the candidate would have
RECURSIVE rejected_cx(_, _, _)
rejected_cx(g, ind, mvs) ==
    IF mvs = <<>> THEN {}
    ELSE LET r == add_cx(g, ind, Head(mvs))
             v == cx(value(g, ind), Head(mvs).ctrl, Head(mvs).tgt)
         IN  (IF r.ind = None
              THEN {[kind |-> "Op", have |-> cost(g, get_by_right(g.values, v)),
                     candidate |-> cost(g, ind) + 1]}
              ELSE {})
             \cup rejected_cx(r.graph, ind, Tail(mvs))

\* the same for the add_merge calls of one expansion
RECURSIVE rejected_merge(_, _, _, _)
rejected_merge(g, ind, order, mergeable_nodes) ==
    IF order = <<>> THEN {}
    ELSE LET r == add_merge(g, ind, Head(order), mergeable_nodes[Head(order)])
             v == merge(value(g, ind), value(g, Head(order)), mergeable_nodes[Head(order)])
         IN  (IF r.ind = None
              THEN {[kind |-> "Merge", have |-> cost(g, get_by_right(g.values, v)),
                     candidate |-> cost(g, ind) + cost(g, Head(order))]}
              ELSE {})
             \cup rejected_merge(r.graph, ind, Tail(order), mergeable_nodes)

\* the rejected calls of expand_children(ind)
rejected(g, ind, complete) ==
    LET g1 == add_cx_all(g, ind, cx_moves(g, ind))
        mergeable_nodes == find_mergeable_nodes(g1, ind)
    IN  rejected_cx(g, ind, cx_moves(g, ind))
        \cup (IF is_mergeable(g1, ind, complete)
              THEN rejected_merge(g1, ind, AscSeq(DOMAIN mergeable_nodes), mergeable_nodes)
              ELSE {})

\* the nodes the next iteration of a_star may expand
expandable == {e.item : e \in {x \in pq_top(pq) : ~depth_reached(x.item) /\ ~is_optimal(x)}}

\* C23: whenever add_cx or add_merge is rejected during a_star because the
\* value already exists, the cost of the node that holds the value is at
\* most the cost the rejected candidate would have had.
C23_FirstDiscoveryCheapest ==
    (algo = "astar" /\ pc = "loop") =>
        \A ind \in expandable :
            \A r \in rejected(graph, ind, complete_qubits(value(graph, ind), target)) :
                r.have <= r.candidate

\* C24: one expand_children call on a non-root, unexpanded node whose prev
\* edge is an Op edge creates its CX children and then, for every RHS that
\* find_mergeable_nodes returns with a merged value that is new, a merge
\* child; the CX children of the same call do not suppress the merge
\* children.
C24_MergeAfterCxChildren ==
    (algo = "astar" /\ pc = "loop") =>
        \A ind \in expandable :
            (prev_edge(graph, ind).type = "Op" /\ ~is_expanded(graph, ind)) =>
                LET g1 == add_cx_all(graph, ind, cx_moves(graph, ind))
                    g2 == expand_children(graph, ind,
                                          complete_qubits(value(graph, ind), target))
                    mergeable_nodes == find_mergeable_nodes(graph, ind)
                IN  \A m \in DOMAIN mergeable_nodes :
                        LET v == merge(value(graph, ind), value(graph, m), mergeable_nodes[m])
                        IN  ~contains_right(g1.values, v) =>
                                \E k \in merge_nodes(g2) :
                                    /\ value(g2, k) = v
                                    /\ prev_edge(g2, k).src1 = ind
                                    /\ k >= Len(g1.nodes)

\* the expanded nodes outside the past of `ind` whose own gates and the own
\* gates of `ind` touch disjoint qubits
compatible_nodes(g, ind) ==
    {m \in 0 .. (Len(g.nodes) - 1) :
        /\ is_expanded(g, m)
        /\ m \notin ancestry(g, ind)
        /\ touched(g, history(g, m) \ history(g, ind))
               \cap touched(g, history(g, ind) \ history(g, m)) = {}}

\* C25: for a non-root unexpanded node ind, find_mergeable_nodes(ind)
\* returns exactly the expanded nodes m, neither ind nor in the past of ind,
\* for which the qubits touched in the past of m but not of ind are
\* disjoint from the qubits touched in the past of ind but not of m, each
\* with the qubits touched by the gates of m that are not in the past of ind.
C25_FindMergeableNodes ==
    algo = "astar" =>
        \A ind \in 1 .. (Len(graph.nodes) - 1) :
            ~is_expanded(graph, ind) =>
                LET mergeable_nodes == find_mergeable_nodes(graph, ind)
                IN  /\ DOMAIN mergeable_nodes = compatible_nodes(graph, ind)
                    /\ \A m \in DOMAIN mergeable_nodes :
                        mergeable_nodes[m]
                            = touched(graph, history(graph, m) \ history(graph, ind))


\* C26: with max_depth = Some(d), every sequence a_star returns has at most
\* d gates.
C26_DepthCapBoundsSolution ==
    (algo = "astar" /\ Returned /\ solution.some) => Len(solution.sol) <= max_depth

\* C27: if the start value equals the target, a_star returns the empty gate
\* sequence.
C27_StartIsTarget ==
    (algo = "astar" /\ start = target /\ pc \in {"returned", "exit", "panic"})
    => (pc # "panic" /\ solution.some /\ solution.sol = <<>>)

\* the circuits at most n moves of `b` away from the circuits in V
RECURSIVE bfs_ball(_, _, _)
bfs_ball(b, V, n) ==
    IF n <= 0 THEN V
    ELSE bfs_ball(b,
                  V \cup {mult_transpose(x[1], b.moves[x[2]]) :
                            x \in V \X (1 .. Len(b.moves))},
                  n - 1)

\* the circuits at minimum distance d from the root of `b`
bfs_sphere(b, d) ==
    IF d = 0 THEN DOMAIN layer(b, 0)
    ELSE bfs_ball(b, DOMAIN layer(b, 0), d) \ bfs_ball(b, DOMAIN layer(b, 0), d - 1)

\* C28: for a BFS instance with single-CX moves, after any number of step()
\* calls the stored layers are pairwise disjoint and layer d holds exactly
\* the operators at minimum distance d from the root, although step() only
\* filters against the two most recent layers.
C28_LayersAreSpheres ==
    algo = "layers" =>
        /\ \A d \in 0 .. bfs_depth(forward), e \in 0 .. bfs_depth(forward) :
            d # e => DOMAIN layer(forward, d) \cap DOMAIN layer(forward, e) = {}
        /\ \A d \in 0 .. bfs_depth(forward) :
            DOMAIN layer(forward, d) = bfs_sphere(forward, d)

\* four steps from a root that is not the identity, with non-empty layers 3
\* and 4, the root being one move away from a circuit of layer 3 or more
C28_Witness ==
    /\ algo = "layers"
    /\ start # eye
    /\ bfs_depth(forward) = 4
    /\ DOMAIN layer(forward, 3) # {}
    /\ DOMAIN layer(forward, 4) # {}
    /\ Len(forward.moves) >= 3


\* C29: after every BFS step each element e of a layer d >= 1 is absent from
\* layers d-1 and d-2, the move index recorded for e is an index into the
\* move list, and un-applying that move, e.mult_transpose(moves[i]), gives an
\* element of layer d-1 (as does un-applying any other move that produced e).
C29_RecordedMoveProduces ==
    algo = "layers" =>
        \A d \in 1 .. bfs_depth(forward) : \A e \in DOMAIN layer(forward, d) :
            LET i == layer(forward, d)[e]
            IN  /\ e \notin DOMAIN layer(forward, d - 1)
                /\ d >= 2 => e \notin DOMAIN layer(forward, d - 2)
                /\ i \in 0 .. (Len(forward.moves) - 1)
                /\ mult_transpose(e, forward.moves[i + 1]) \in DOMAIN layer(forward, d - 1)
                \* whichever producer the map insertion order keeps
                /\ \A j \in 1 .. Len(forward.moves) :
                    (\E f \in DOMAIN layer(forward, d - 1) :
                        mult_transpose(f, forward.moves[j]) = e)
                    => mult_transpose(e, forward.moves[j]) \in DOMAIN layer(forward, d - 1)

\* a third layer in which some element has two producers in layer 2 and
\* some element was recorded with a move other than the first
C29_Witness ==
    /\ algo = "layers"
    /\ bfs_depth(forward) >= 3
    /\ \E e \in DOMAIN layer(forward, 3) :
        /\ layer(forward, 3)[e] > 0
        /\ \E i, j \in 1 .. Len(forward.moves) :
            /\ i # j
            /\ mult_transpose(e, forward.moves[i]) \in DOMAIN layer(forward, 2)
            /\ mult_transpose(e, forward.moves[j]) \in DOMAIN layer(forward, 2)


\* the element reached from c by un-applying the moves of mvs in order
RECURSIVE unapply(_, _, _)
unapply(b, c, mvs) ==
    IF mvs = <<>> THEN c
    ELSE unapply(b, mult_transpose(c, b.moves[Head(mvs) + 1]), Tail(mvs))

\* the circuits stored in some layer of b
stored(b) == UNION {DOMAIN layer(b, d) : d \in 0 .. bfs_depth(b)}

\* the circuits one move beyond the last layer of b that no layer stores
beyond(b) ==
    {mult_transpose(x[1], b.moves[x[2]]) :
        x \in (DOMAIN layer(b, bfs_depth(b))) \X (1 .. Len(b.moves))} \ stored(b)

\* C30: for any operator stored in layer d of a BFS instance, whether or not
\* d is the current depth, backtrack returns exactly d move indices whose
\* un-application in order ends at the BFS root, and the depth-0 check
\* passes; for an operator whose walk does not end at the root the failure
\* is raised.
C30_BacktrackStored ==
    algo = "layers" =>
        /\ \A d \in 0 .. bfs_depth(forward) : \A c \in DOMAIN layer(forward, d) :
            /\ backtrack(forward, c).ok
            /\ Len(backtrack(forward, c).moves) = d
            /\ unapply(forward, c, backtrack(forward, c).moves) = start
        /\ \A c \in stored(forward) \cup beyond(forward) :
            backtrack(forward, c).ok
                <=> unapply(forward, c, backtrack(forward, c).moves) = start

\* four layers, an operator of layer 2 backtracked past two layers that do
\* not hold it, and an operator no layer stores for which the check fails
C30_Witness ==
    /\ algo = "layers"
    /\ bfs_depth(forward) = 4
    /\ DOMAIN layer(forward, 4) # {}
    /\ \E c \in DOMAIN layer(forward, 2) :
        /\ c \notin DOMAIN layer(forward, 4) \cup DOMAIN layer(forward, 3)
        /\ Len(backtrack(forward, c).moves) = 2
    /\ \E c \in beyond(forward) : ~backtrack(forward, c).ok


\* C31: with max_depth = Some(d), every pop of a_star either expands a node
\* whose cost is at most d, or, when the popped node's cost exceeds d, stops
\* the loop without touching the graph and returns the best solution
\* recorded so far (none if there is none); a solution found does not stop
\* the loop before the next pop.
C31_DepthCap ==
    [][(algo = "astar" /\ pc = "loop" /\ pc' # "panic") =>
        /\ cost(graph, popped') > max_depth =>
            /\ pc' = "returned"
            /\ graph' = graph
            /\ solution' = min_solution
            /\ min_solution' = min_solution
        /\ cost(graph, popped') <= max_depth =>
            (pc' = "loop" \/ (pc' = "returned" /\ is_optimal(CHOOSE e \in pq : e.item = popped')))
        /\ graph' # graph => cost(graph, popped') <= max_depth
        /\ \A n \in 0 .. (Len(graph'.nodes) - 1) :
            is_expanded(graph', n) => cost(graph', n) <= max_depth]_vars

\* a_star has stopped on a popped node dearer than the cap and returns a
\* solution recorded by an earlier expansion
C31_Witness ==
    /\ algo = "astar"
    /\ pc = "returned"
    /\ popped # None
    /\ cost(graph, popped) > max_depth
    /\ solution.some
    /\ Len(graph.nodes) > 3


\* the nodes waiting in the queue
queued(q) == {e.item : e \in q}

\* the estimated total cost of node n: its cost plus its distance to the target
estimate(g, n) == cost(g, n) + dist(value(g, n), target)

\* C32: every pop of a_star returns a queued node of smallest estimated
\* total cost (cost + distance to the target), and among the queued nodes of
\* that estimate one of largest cost; the nodes an expansion creates, and no
\* others, enter the queue, each once, keyed by its estimate and its cost.
C32_PopOrder ==
    [][(algo = "astar" /\ pc = "loop" /\ pc' # "panic") =>
        /\ popped' \in queued(pq)
        /\ \A n \in queued(pq) :
            /\ estimate(graph, popped') <= estimate(graph, n)
            /\ estimate(graph, n) = estimate(graph, popped')
                => cost(graph, n) <= cost(graph, popped')
        /\ queued(pq') = (queued(pq) \ {popped'})
                            \cup (Len(graph.nodes) .. (Len(graph'.nodes) - 1))
        /\ Cardinality(pq') = Cardinality(queued(pq'))
        /\ \A e \in pq' :
            /\ e.cost = estimate(graph', e.item)
            /\ e.gates = cost(graph', e.item)]_vars

\* a pop has been made and the queue holds two nodes of equal estimate and
\* different cost, next to a node of another estimate
C32_Witness ==
    /\ algo = "astar"
    /\ pc = "loop"
    /\ popped # None
    /\ \E a, b, c \in pq :
        /\ a.cost = b.cost
        /\ a.gates < b.gates
        /\ \A o \in pq : a.cost <= o.cost
        /\ c.cost > a.cost


\* the elements of a sequence
Range(s) == {s[k] : k \in DOMAIN s}

\* the gates of the Op edges that leave `ind` in g2 towards nodes g lacks
new_cx_children(g, g2, ind) ==
    {e.op : e \in {x \in Range(next_edges(g2, ind)) :
                        x.type = "Op" /\ x.dst >= Len(g.nodes)}}

\* the allowed moves with at least one endpoint among the qubits of `op`
overlapping_moves(g, op) ==
    {m \in g.allowed_moves : {m.ctrl, m.tgt} \cap {op.ctrl, op.tgt} # {}}

\* C33: expand_children on the root attempts a CX child for every allowed
\* move; on a node whose prev edge is Op{ctrl, tgt} it attempts one for
\* exactly the allowed moves sharing an endpoint with {ctrl, tgt}, each once;
\* the CX children it creates are the attempted moves whose value is new, so
\* none acts on a pair disjoint from the gate before the node.
C33_CxChildrenOverlap ==
    algo = "astar" =>
        \A ind \in 0 .. (Len(graph.nodes) - 1) :
            prev_edge(graph, ind).type # "Merge" =>
                LET e == prev_edge(graph, ind)
                    expected == IF e.type = "Op" THEN overlapping_moves(graph, e.op)
                                ELSE graph.allowed_moves
                    g1 == add_cx_all(graph, ind, cx_moves(graph, ind))
                IN  /\ Range(cx_moves(graph, ind)) = expected
                    /\ Len(cx_moves(graph, ind)) = Cardinality(expected)
                    /\ new_cx_children(graph, g1, ind)
                        = {m \in expected :
                            ~contains_right(graph.values,
                                            cx(value(graph, ind), m.ctrl, m.tgt))}
                    /\ ind \in expandable =>
                        new_cx_children(graph,
                            expand_children(graph, ind,
                                            complete_qubits(value(graph, ind), target)),
                            ind) = new_cx_children(graph, g1, ind)

\* the root has been expanded, and the node about to be expanded follows an
\* Op edge, gets a CX child, and some allowed move shares no endpoint with
\* its gate
C33_Witness ==
    /\ algo = "astar"
    /\ pc = "loop"
    /\ is_expanded(graph, root_ind)
    /\ \E ind \in expandable :
        /\ prev_edge(graph, ind).type = "Op"
        /\ overlapping_moves(graph, prev_edge(graph, ind).op) # graph.allowed_moves
        /\ new_cx_children(graph, add_cx_all(graph, ind, cx_moves(graph, ind)), ind) # {}


\* the allowed gates with one endpoint in Q1 and the other in Q2
bridging_moves(g, Q1, Q2) ==
    {m \in g.allowed_moves :
        \/ m.ctrl \in Q1 /\ m.tgt \in Q2
        \/ m.ctrl \in Q2 /\ m.tgt \in Q1}

\* C34: expand_children on a node whose prev edge is Merge{src1, src2}
\* attempts a CX child for exactly the allowed gates with one endpoint among
\* the qubits of src1's prev Op edge and the other among those of src2's,
\* in both orientations, and creates those whose value is new; when the prev
\* edge of either source is not an Op edge it creates no CX child.
C34_CxChildrenAfterMerge ==
    algo \in {"astar", "graph"} =>
        \A ind \in merge_nodes(graph) :
            LET e == prev_edge(graph, ind)
                e1 == prev_edge(graph, e.src1)
                e2 == prev_edge(graph, e.src2)
                expected == IF e1.type = "Op" /\ e2.type = "Op"
                            THEN bridging_moves(graph, {e1.op.ctrl, e1.op.tgt},
                                                {e2.op.ctrl, e2.op.tgt})
                            ELSE {}
                g1 == add_cx_all(graph, ind, cx_moves(graph, ind))
            IN  /\ Range(cx_moves(graph, ind)) = expected
                /\ new_cx_children(graph, g1, ind)
                    = {m \in expected :
                        ~contains_right(graph.values,
                                        cx(value(graph, ind), m.ctrl, m.tgt))}
                /\ new_cx_children(graph,
                        expand_children(graph, ind,
                                        complete_qubits(value(graph, ind), target)),
                        ind) = new_cx_children(graph, g1, ind)

\* a graph with a merge node whose sources both follow Op edges, for which
\* expand_children creates a CX child while another allowed move does not
\* bridge
C34_Witness ==
    /\ algo = "graph"
    /\ \E ind \in merge_nodes(graph) :
        /\ prev_edge(graph, prev_edge(graph, ind).src1).type = "Op"
        /\ prev_edge(graph, prev_edge(graph, ind).src2).type = "Op"
        /\ new_cx_children(graph, add_cx_all(graph, ind, cx_moves(graph, ind)), ind) # {}
        /\ Range(cx_moves(graph, ind)) # graph.allowed_moves

\* a graph with a merge node one of whose sources follows no Op edge
C34_SourceWithoutOp ==
    /\ algo = "graph"
    /\ \E ind \in merge_nodes(graph) :
        \/ prev_edge(graph, prev_edge(graph, ind).src1).type # "Op"
        \/ prev_edge(graph, prev_edge(graph, ind).src2).type # "Op"

\* the qubits of the Op edges that are the prev edges of the two sources of
\* the merge edge e
source_op_qubits(g, e) ==
    UNION {{x.op.ctrl, x.op.tgt} :
            x \in {y \in {prev_edge(g, e.src1), prev_edge(g, e.src2)} : y.type = "Op"}}

\* the merge edges of g
merge_edges(g) == {prev_edge(g, m) : m \in merge_nodes(g)}

well_formed(g) ==
    /\ prev_edge(g, root_ind).type = "None"
    /\ \A n \in 1 .. (Len(g.nodes) - 1) :
        /\ prev_edge(g, n).type \in {"Op", "Merge"}
        /\ prev_edge(g, n).dst = n
        /\ \A s \in Range(srcs(prev_edge(g, n))) : s < n
    /\ \A n \in 0 .. (Len(g.nodes) - 1) : \A e \in Range(next_edges(g, n)) :
        /\ n \in Range(srcs(e))
        /\ e.dst \in 1 .. (Len(g.nodes) - 1)
        /\ prev_edge(g, e.dst) = e
        /\ \A s \in Range(srcs(e)) : s \in 0 .. (e.dst - 1)

\* C36: after any sequence of add_cx, add_merge and expand_children calls
\* the graph is a well-formed DAG: node 0 is the only node without a prev
\* edge, every other node n has one prev edge whose dst is n, the sources of
\* every edge are smaller than its dst, every edge of a next list has the
\* list's node among its sources and is the prev edge of its dst; and no
\* call removes a node or changes the prev edge of one.
C36_WellFormedDag ==
    /\ [](algo = "graph" => well_formed(graph))
    /\ [][algo = "graph" =>
            /\ Len(graph'.nodes) >= Len(graph.nodes)
            /\ \A n \in 0 .. (Len(graph.nodes) - 1) :
                /\ prev_edge(graph', n) = prev_edge(graph, n)
                /\ cost(graph', n) = cost(graph, n)]_vars

\* a graph with an Op edge, a merge edge added by an add_merge call, and a
\* node with two outgoing edges, at the largest size
C36_Witness ==
    /\ algo = "graph"
    /\ Len(graph.nodes) = MaxNodes
    /\ merge_nodes(graph) # {}
    /\ \E n \in 0 .. (Len(graph.nodes) - 1) : Len(next_edges(graph, n)) >= 2
    /\ \E n \in 1 .. (Len(graph.nodes) - 1) :
        /\ prev_edge(graph, n).type = "Op"
        /\ prev_edge(graph, n).src # root_ind


\* the number of gates of the sequence s that act on qubit qb
RECURSIVE gates_on(_, _)
gates_on(s, qb) ==
    IF s = <<>> THEN 0
    ELSE (IF qb \in {Head(s).ctrl, Head(s).tgt} THEN 1 ELSE 0) + gates_on(Tail(s), qb)

\* C37: for every node n of a graph a_star builds and every qubit i, the
\* i-th entry of n's cx_count_per_qb (zero beyond the vector) is the number
\* of gates of path(n), which holds each gate of n's history once, that act
\* on qubit i as control or target.
C37_StatsCountHistory ==
    algo = "astar" =>
        \A n \in 0 .. (Len(graph.nodes) - 1) : \A qb \in Qubits :
            /\ cx_count(graph, n, qb) = gates_on(path(graph, n), qb)
            /\ cx_count(graph, n, qb)
                = Cardinality({h \in history(graph, n) : qb \in touched(graph, {h})})


\* best solutions a run might hold: none, or k times the same gate
prior_solutions == {NoSolution} \cup {Some([i \in 1 .. k |-> CX(0, 1)]) : k \in 0 .. 4}

\* the nodes created by the step from g to g2
created(g, g2) == Len(g.nodes) .. (Len(g2.nodes) - 1)

\* the shorter of the best solution `best` and the candidate `cand`, the
\* earlier one when neither is shorter
shorter(best, cand) ==
    IF ~best.some \/ Len(cand) < Len(best.sol) THEN Some(cand) ELSE best

\* C38: in a_star a new child whose value is the target yields the
\* candidate path(child), which replaces the best solution only when there
\* is none or it is strictly shorter; a child with another value leaves the
\* best solution alone; so the best solution, once recorded, never gets
\* longer during a run, and what a_star returns is the best solution.
C38_BestSolution ==
    /\ [](algo = "astar" =>
            \A c \in 1 .. (Len(graph.nodes) - 1) : \A prior \in prior_solutions :
                visit_child(graph, target, c, [min_solution |-> prior, pq |-> pq]).min_solution
                    = IF value(graph, c) = target
                      THEN shorter(prior, path(graph, c))
                      ELSE prior)
    /\ [][(algo = "astar" /\ pc = "loop") =>
            /\ min_solution.some =>
                /\ min_solution'.some
                /\ Len(min_solution'.sol) <= Len(min_solution.sol)
            /\ min_solution' # min_solution =>
                \E c \in created(graph, graph') :
                    /\ value(graph', c) = target
                    /\ min_solution' = Some(path(graph', c))
            /\ (\E c \in created(graph, graph') : value(graph', c) = target)
                => min_solution'.some
            /\ pc' = "returned" => solution' = min_solution]_vars

\* a_star has returned a solution of two gates or more that an expansion
\* recorded as the path of a new child holding the target
C38_Witness ==
    /\ algo = "astar"
    /\ pc = "returned"
    /\ solution.some
    /\ Len(solution.sol) >= 2
    /\ \E c \in 1 .. (Len(graph.nodes) - 1) :
        value(graph, c) = target /\ solution.sol = path(graph, c)

====
